---- MODULE Spec2Model ----
(***************************************************************************)
(* Mental Health Companion: the emotion fusion and depression scoring of   *)
(* emotion_model.py and the chat session of chat_service.py as reached     *)
(* through the Flask routes of app.py.                                     *)
(*                                                                         *)
(* Numbers.  A classifier confidence is a float in [0,1]; the model keeps  *)
(* it as an integer count of thousandths (0.9 is 900).  The fusion weights *)
(* and the depression indicators are tenths, so a weighted score           *)
(* score*w is (thousandths * tenths) \div 10, exact on the grid used, and  *)
(* an unrounded depression score indicator*score is kept in               *)
(* ten-thousandths.  round(x, 2) yields hundredths.                        *)
(***************************************************************************)
EXTENDS Integers, Sequences, FiniteSets, TLC

VARIABLES
    \* ---- emotion_model.py: one call of detect_depression ----
    text_em, audio_em, image_em,  \* the per-modality estimates (None when absent)
    fused_emotion,                \* fuse_emotions' return value
    analysis,                     \* detect_depression's return value
    epc,                          \* position in detect_depression
    enhanced_response,            \* what _enhance_response_with_emotional_context appended
    user_message,                 \* _get_fallback_response's user_message argument
    fallback_response,            \* the pool _get_fallback_response drew its reply from
    \* ---- app.py: the report and the dashboard of one user ----
    report,                       \* generate_depression_report's report dictionary
    depression_risk,              \* dashboard's depression_risk
    \* ---- chat_service.py: the process-wide ChatService and its callers ----
    cv2,                          \* whether `import cv2` succeeded
    chat_service,                 \* the module global: "None" or "ChatService"
    user_id,                      \* self.user_id (self.db is set with it)
    stop_capture,                 \* self.stop_capture
    capture_thread,               \* self.capture_thread: NoThread or a thread
    camera,                       \* self.camera: NoHandle or a device handle
    conversation_history,         \* self.conversation_history
    threads,                      \* position of every capture thread in _capture_loop
    handles,                      \* state of every cv2.VideoCapture handle
    emotional_data,               \* the sink: users.<u>.emotional_data
    depression_scores,            \* the sink: users.<u>.depression_scores
    requests,                     \* per caller thread: the call it runs or last finished
    calls                         \* the number of calls begun so far

\* What the calls on the pure functions and on the report routes hold.
fvars == <<user_message, fallback_response, report, depression_risk>>

evars == <<text_em, audio_em, image_em, fused_emotion, analysis, epc, enhanced_response, fvars>>

svars == <<chat_service, user_id, stop_capture, capture_thread, camera, conversation_history>>

cvars == <<cv2, svars, threads, handles, emotional_data, depression_scores, requests, calls>>

vars == <<evars, cvars>>

(***************************************************************************)
(* Bounds of the input space.                                              *)
(***************************************************************************)
NumLabels == 9
NumScores == 6

\* The emotion vocabulary, the order in which the bound admits the labels.
\* "Sadness" is a label a classifier spells with a capital; "happy" is a label
\* the indicator table does not know.
LabelSeq == <<"joy", "sadness", "anger", "unknown", "Sadness", "fear", "neutral", "disgust",
              "surprise", "happy">>
\* Confidences in thousandths; every one is an even number of hundredths, so
\* that no product with a tenth-valued weight lands on a rounding tie.
ScoreSeq == <<900, 600, 800, 740, 0, 1000, 500, 300>>

Labels == {LabelSeq[k] : k \in 1..NumLabels}
Scores == {ScoreSeq[k] : k \in 1..NumScores}

\* Python's None for an absent estimate.
None == [label |-> "None", score |-> 0]
Estimates == [label : Labels, score : Scores]
Unknown == [label |-> "unknown", score |-> 0]

\* Truthiness of an estimate argument: a non-empty dict is true, None is false.
Truthy(e) == e # None

Max(x, y) == IF x >= y THEN x ELSE y

(***************************************************************************)
(* fuse_emotions                                                           *)
(***************************************************************************)
\* score * w for a weight of w tenths.
Weighted(score, w) == (score * w) \div 10

\* A two-input branch that adds the scores unweighted on agreement.
FusePairUnweighted(x, wx, img, wi) ==
    IF x.label = img.label
    THEN [label |-> x.label, score |-> x.score + img.score]
    ELSE [label |-> IF Weighted(x.score, wx) >= Weighted(img.score, wi)
                    THEN x.label ELSE img.label,
          score |-> Max(Weighted(x.score, wx), Weighted(img.score, wi))]

\* A two-input branch that takes the larger weighted score on agreement too.
FusePairMax(x, wx, img, wi) ==
    [label |-> IF Weighted(x.score, wx) >= Weighted(img.score, wi)
               THEN x.label ELSE img.label,
     score |-> Max(Weighted(x.score, wx), Weighted(img.score, wi))]

\* A two-input branch that gives a tie to the image.
FusePairImageOnTie(x, wx, img, wi) ==
    IF x.label = img.label
    THEN [label |-> x.label, score |-> Weighted(x.score, wx) + Weighted(img.score, wi)]
    ELSE [label |-> IF Weighted(x.score, wx) > Weighted(img.score, wi)
                    THEN x.label ELSE img.label,
          score |-> Max(Weighted(x.score, wx), Weighted(img.score, wi))]

\* Two-input branch shared by text+image (7,3) and audio+image (6,4).
FusePair(x, wx, img, wi) ==
    IF x.label = img.label
    THEN [label |-> x.label, score |-> Weighted(x.score, wx) + Weighted(img.score, wi)]
    ELSE [label |-> IF Weighted(x.score, wx) >= Weighted(img.score, wi)
                    THEN x.label ELSE img.label,
          score |-> Max(Weighted(x.score, wx), Weighted(img.score, wi))]

\* The dict literal of the three-input branch: a later entry with the same key
\* replaces the earlier one's value.
ScoresDict(t, a, i, l) ==
    IF i.label = l THEN Weighted(i.score, 2)
    ELSE IF a.label = l THEN Weighted(a.score, 3)
    ELSE Weighted(t.score, 5)

\* The dict's keys in insertion order.
DictKeys(t, a, i) ==
    LET k1 == <<t.label>>
        k2 == IF a.label = t.label THEN k1 ELSE Append(k1, a.label)
    IN  IF i.label = t.label \/ i.label = a.label THEN k2 ELSE Append(k2, i.label)

\* max(scores, key=scores.get): the first key, in insertion order, whose value
\* no other key exceeds.
FuseThree(t, a, i) ==
    LET keys == DictKeys(t, a, i)
        val(l) == ScoresDict(t, a, i, l)
        best == CHOOSE n \in 1..Len(keys) :
                    /\ \A m \in 1..Len(keys) : val(keys[n]) >= val(keys[m])
                    /\ \A m \in 1..(n - 1) : val(keys[m]) < val(keys[n])
    IN  [label |-> keys[best], score |-> val(keys[best])]

\* A fusion whose last branch looks at the text and the image only.
fuse_emotions_no_audio(t, a, i) ==
    IF Truthy(t) /\ Truthy(i) /\ ~Truthy(a) THEN FusePair(t, 7, i, 3)
    ELSE IF Truthy(a) /\ Truthy(i) /\ ~Truthy(t) THEN FusePair(a, 6, i, 4)
    ELSE IF Truthy(t) /\ Truthy(a) /\ Truthy(i) THEN FuseThree(t, a, i)
    ELSE IF Truthy(t) THEN t
    ELSE IF Truthy(i) THEN i
    ELSE Unknown

\* A fusion whose last branch prefers the audio estimate to the text estimate.
fuse_emotions_audio_first(t, a, i) ==
    IF Truthy(t) /\ Truthy(i) /\ ~Truthy(a) THEN FusePair(t, 7, i, 3)
    ELSE IF Truthy(a) /\ Truthy(i) /\ ~Truthy(t) THEN FusePair(a, 6, i, 4)
    ELSE IF Truthy(t) /\ Truthy(a) /\ Truthy(i) THEN FuseThree(t, a, i)
    ELSE IF Truthy(a) THEN a
    ELSE IF Truthy(t) THEN t
    ELSE IF Truthy(i) THEN i
    ELSE Unknown

\* fuse_emotions: text+image, audio+image, all three, else the first of text,
\* audio, image that is present, else unknown/0.0.
fuse_emotions(t, a, i) ==
    IF Truthy(t) /\ Truthy(i) /\ ~Truthy(a) THEN FusePair(t, 7, i, 3)
    ELSE IF Truthy(a) /\ Truthy(i) /\ ~Truthy(t) THEN FusePair(a, 6, i, 4)
    ELSE IF Truthy(t) /\ Truthy(a) /\ Truthy(i) THEN FuseThree(t, a, i)
    ELSE IF Truthy(t) THEN t
    ELSE IF Truthy(a) THEN a
    ELSE IF Truthy(i) THEN i
    ELSE Unknown

(***************************************************************************)
(* detect_depression                                                       *)
(***************************************************************************)
\* An indicator table with the weights of fear and anger exchanged.
depression_indicators_swapped(label) ==
    CASE label = "sadness"  -> 8
      [] label = "fear"     -> 4
      [] label = "anger"    -> 6
      [] label = "disgust"  -> 5
      [] label = "neutral"  -> 2
      [] label = "joy"      -> 0
      [] label = "surprise" -> 1
      [] OTHER              -> 3

\* depression_indicators.get(label, 0.3), in tenths.
depression_indicators(label) ==
    CASE label = "sadness"  -> 8
      [] label = "fear"     -> 6
      [] label = "anger"    -> 4
      [] label = "disgust"  -> 5
      [] label = "neutral"  -> 2
      [] label = "joy"      -> 0
      [] label = "surprise" -> 1
      [] OTHER              -> 3

\* str.lower() on the labels of the vocabulary.
CapitalLabels == <<"Joy", "Sadness", "Anger", "Unknown", "Fear", "Neutral", "Disgust",
                   "Surprise", "Happy">>
SmallLabels == <<"joy", "sadness", "anger", "unknown", "fear", "neutral", "disgust",
                 "surprise", "happy">>

lower(label) ==
    IF \E n \in 1..Len(CapitalLabels) : CapitalLabels[n] = label
    THEN SmallLabels[CHOOSE n \in 1..Len(CapitalLabels) : CapitalLabels[n] = label]
    ELSE label

\* str.capitalize() on a label in lower case.
capitalize(label) ==
    IF \E n \in 1..Len(SmallLabels) : SmallLabels[n] = label
    THEN CapitalLabels[CHOOSE n \in 1..Len(SmallLabels) : SmallLabels[n] = label]
    ELSE label

\* The product with 0.5 taken for a score of 0.0 (`get('score') or 0.5`).
RawDepressionScoreZeroDefault(f) ==
    depression_indicators(lower(f.label)) * (IF f.score = 0 THEN 500 ELSE f.score)

\* The product with the label looked up as it is spelt.
RawDepressionScoreNoLower(f) == depression_indicators(f.label) * f.score

\* The unrounded depression_score, in ten-thousandths.
RawDepressionScore(f) == depression_indicators(lower(f.label)) * f.score

\* round(x, 2) of a value in ten-thousandths, as hundredths: to nearest, a tie
\* to the even neighbour.
Round2(x) ==
    LET q == x \div 100
        r == x % 100
    IN  IF r < 50 THEN q
        ELSE IF r > 50 THEN q + 1
        ELSE IF q % 2 = 0 THEN q ELSE q + 1

\* _classify_depression_level on a score in ten-thousandths.
classify_depression_level(score) ==
    IF score < 3000 THEN "low"
    ELSE IF score < 6000 THEN "moderate"
    ELSE "high"

\* The dictionary detect_depression returns for a fused emotion: the level is
\* classified from the unrounded score, the score is returned rounded.
DepressionResult(f) ==
    [emotional_state  |-> f,
     depression_score |-> Round2(RawDepressionScore(f)),
     depression_level |-> classify_depression_level(RawDepressionScore(f))]

NoAnalysis == [emotional_state |-> None, depression_score |-> 0, depression_level |-> "None"]

(***************************************************************************)
(* chat_service.py: the ChatService singleton.                             *)
(*                                                                         *)
(* app.run(debug=True) serves every HTTP request on a thread of its own,   *)
(* and every route reaches the one ChatService that get_chat_service       *)
(* hands out; _capture_loop runs on a further daemon thread.  A call is    *)
(* therefore a sequence of steps, one per access to the shared object,     *)
(* and the steps of different calls and of the capture threads interleave. *)
(***************************************************************************)
\* Bounds: the number of calls made on the service (without and with OpenCV),
\* the number of them running at the same time, and the number of frames the
\* capture threads store.
MaxRequests == 2
MaxCaptureRequests == 3
MaxInFlight == 2
MaxCaptures == 1

Users == {"A", "B"}
\* The caller threads (Flask serves each request on a thread of its own).
Workers == 1..MaxInFlight
\* Calls are numbered in the order in which they begin.
CallIds == 1..Max(MaxRequests, MaxCaptureRequests)
\* A capture thread, and the device handle it opens, are named after the
\* call whose start_background_capture created the thread.
ThreadIds == CallIds
NoThread == 0
NoHandle == 0

\* A message is a sequence of characters; NoneMsg stands for Python's None.
NoneMsg == <<"None">>
Messages == {NoneMsg, <<>>, <<" ">>, <<"h", "i">>}
Whitespace == {" ", "\t", "\n"}

RECURSIVE lstrip(_)
lstrip(m) == IF m # <<>> /\ Head(m) \in Whitespace THEN lstrip(Tail(m)) ELSE m

RECURSIVE rstrip(_)
rstrip(m) ==
    IF m # <<>> /\ m[Len(m)] \in Whitespace THEN rstrip(SubSeq(m, 1, Len(m) - 1)) ELSE m

\* str.strip()
strip(m) == rstrip(lstrip(m))

\* The check without the strip: a whitespace-only message passes it.
IsBlankNoStrip(m) == m = NoneMsg \/ m = <<>>

\* `not message or not message.strip()`
IsBlank(m) == m = NoneMsg \/ m = <<>> \/ strip(m) = <<>>

\* What the text classifier may answer for a chat message (thousandths).
ChatEstimates == {[label |-> "sadness", score |-> 900]}

\* The pool start_chat draws its welcome from.  The four texts differ in
\* nothing the service does with them: a text is kept as the pool it is from.
\* The same holds for the replies ("llm", "fallback") and the fixed texts
\* ("clarify", "trouble").
welcome_messages == {"welcome"}

\* A reply's text: the generated text (base), the paragraphs enhancement
\* appended to it, and for a user turn the message itself.
Content(base, addenda, text) == [base |-> base, addenda |-> addenda, text |-> text]

\* A conversation turn: role and content, and for reference the call that
\* appended it and the user that call was made for.
Turn(role, content, rid, user) ==
    [role |-> role, content |-> content, rid |-> rid, user |-> user]

\* send_message's except branch: {"depression_score": 0.0, "depression_level": "unknown"}
FailedAnalysis == [emotional_state |-> None, depression_score |-> 0, depression_level |-> "unknown"]

NoReturn == [role |-> "None", content |-> [base |-> "None", addenda |-> <<>>, text |-> <<>>],
             emotion |-> None, depression |-> NoAnalysis]

\* A call that has not been made yet.
NewRequest ==
    [op |-> "None", rid |-> 0, user |-> "None", message |-> NoneMsg, chat_type |-> "None",
     pc |-> "new", emotion_result |-> None, depression_analysis |-> NoAnalysis,
     formatted_history |-> <<>>, reply |-> "None", ret |-> NoReturn]

\* threading.Thread.is_alive()
is_alive(t) == threads[t] \notin {"unborn", "dead"}

\* ChatService.__init__ and the module's `chat_service = None`.
InitService ==
    /\ chat_service = "None"
    /\ user_id = "None"
    /\ stop_capture = FALSE
    /\ capture_thread = NoThread
    /\ camera = NoHandle
    /\ conversation_history = <<>>
    /\ threads = [t \in ThreadIds |-> "unborn"]
    /\ handles = [h \in ThreadIds |-> "unopened"]
    /\ emotional_data = [u \in Users |-> <<>>]
    /\ depression_scores = [u \in Users |-> <<>>]
    /\ requests = [w \in Workers |-> NewRequest]
    /\ calls = 0

\* A value returned to the caller: the reply dictionary, with the 'emotion' and
\* 'depression' keys when the turn carries them (None/NoAnalysis otherwise).
Return(role, content, emotion, depression) ==
    [role |-> role, content |-> content, emotion |-> emotion, depression |-> depression]

Plain(base) == Content(base, <<>>, <<>>)

\* Record rec with some of its fields changed to those of record f.
With(rec, f) == [k \in DOMAIN rec |-> IF k \in DOMAIN f THEN f[k] ELSE rec[k]]

\* The call on caller thread r with some of its fields changed.
Upd(r, f) == [requests EXCEPT ![r] = With(@, f)]

\* Caller thread r begins call number calls + 1.
Begin(r, f) ==
    /\ requests' = [requests EXCEPT ![r] = With(With(NewRequest, f), [rid |-> calls + 1])]
    /\ calls' = calls + 1

\* A finished call keeps its arguments, its locals and what it returned, until
\* its caller thread begins another call.
Finish(r, ret) == Upd(r, [pc |-> "done", ret |-> ret, formatted_history |-> <<>>])

Idle(r) == requests[r].pc \in {"new", "done"}

\* A call begins on the first caller thread that is free.
CanBegin(r) ==
    /\ Idle(r)
    /\ \A q \in Workers : q < r => ~Idle(q)
    /\ calls < (IF cv2 THEN MaxCaptureRequests ELSE MaxRequests)

\* get_chat_service(db, user_id): create the singleton or re-point it.
get_chat_service(u) ==
    /\ chat_service' = "ChatService"
    /\ user_id' = u

(***************************************************************************)
(* POST /chat/start: get_chat_service, then ChatService.start_chat         *)
(***************************************************************************)
StartChatRoute(r) ==
    \E u \in Users, ct \in {"text", "audio"} :
        /\ CanBegin(r)
        /\ get_chat_service(u)
        /\ Begin(r, [op |-> "start_chat", user |-> u, chat_type |-> ct, pc |-> "sc_reset"])
        /\ UNCHANGED <<cv2, stop_capture, capture_thread, camera, conversation_history,
                       threads, handles, emotional_data, depression_scores>>

\* A start_chat that keeps the history it finds.
StartChatResetKeeps(r) ==
    /\ requests[r].pc = "sc_reset"
    /\ requests' = Upd(r, [pc |-> "sc_welcome"])
    /\ UNCHANGED <<cv2, calls, chat_service, user_id, stop_capture, capture_thread, camera,
                   conversation_history, threads, handles, emotional_data, depression_scores>>

\* self.conversation_history = []
StartChatReset(r) ==
    /\ requests[r].pc = "sc_reset"
    /\ conversation_history' = <<>>
    /\ requests' = Upd(r, [pc |-> "sc_welcome"])
    /\ UNCHANGED <<cv2, calls, chat_service, user_id, stop_capture, capture_thread, camera,
                   threads, handles, emotional_data, depression_scores>>

\* welcome_content = random.choice(welcome_messages); the append; and, for any
\* chat_type but "text", the return.
StartChatWelcome(r) ==
    \E w \in welcome_messages :
        /\ requests[r].pc = "sc_welcome"
        /\ conversation_history' =
               Append(conversation_history, Turn("assistant", Plain(w), requests[r].rid, requests[r].user))
        /\ requests' =
               IF requests[r].chat_type = "text"
               THEN Upd(r, [pc |-> "sbc_check", reply |-> w])
               ELSE Finish(r, Return("assistant", Plain(w), None, NoAnalysis))
        /\ UNCHANGED <<cv2, calls, chat_service, user_id, stop_capture, capture_thread, camera,
                       threads, handles, emotional_data, depression_scores>>

\* start_background_capture: the two early returns.
SbcCheck(r) ==
    /\ requests[r].pc = "sbc_check"
    /\ requests' =
           IF (capture_thread # NoThread /\ is_alive(capture_thread)) \/ ~cv2
           THEN Finish(r, Return("assistant", Plain(requests[r].reply), None, NoAnalysis))
           ELSE Upd(r, [pc |-> "sbc_flag"])
    /\ UNCHANGED <<cv2, calls, svars, threads, handles, emotional_data, depression_scores>>

\* self.stop_capture = False
SbcFlag(r) ==
    /\ requests[r].pc = "sbc_flag"
    /\ stop_capture' = FALSE
    /\ requests' = Upd(r, [pc |-> "sbc_spawn"])
    /\ UNCHANGED <<cv2, calls, chat_service, user_id, capture_thread, camera, conversation_history,
                   threads, handles, emotional_data, depression_scores>>

\* A start_chat that lets the exception of Thread.start() through to the route.
SbcSpawnRaises(r) ==
    \E started \in BOOLEAN :
        /\ requests[r].pc = "sbc_spawn"
        /\ capture_thread' = requests[r].rid
        /\ threads' = [threads EXCEPT ![requests[r].rid] = IF started THEN "open" ELSE "unborn"]
        /\ requests' =
               IF started
               THEN Finish(r, Return("assistant", Plain(requests[r].reply), None, NoAnalysis))
               ELSE Finish(r, Return("raised", Plain("Exception"), None, NoAnalysis))
        /\ UNCHANGED <<cv2, calls, chat_service, user_id, stop_capture, camera,
                       conversation_history, handles, emotional_data, depression_scores>>

\* self.capture_thread = threading.Thread(...); .start(), which may raise
\* (start_chat catches it); start_chat returns the welcome either way.
SbcSpawn(r) ==
    \E started \in BOOLEAN :
        /\ requests[r].pc = "sbc_spawn"
        /\ capture_thread' = requests[r].rid
        /\ threads' = [threads EXCEPT ![requests[r].rid] = IF started THEN "open" ELSE "unborn"]
        /\ requests' = Finish(r, Return("assistant", Plain(requests[r].reply), None, NoAnalysis))
        /\ UNCHANGED <<cv2, calls, chat_service, user_id, stop_capture, camera,
                       conversation_history, handles, emotional_data, depression_scores>>

(***************************************************************************)
(* POST /chat/message and /audio/message: get_chat_service, then           *)
(* ChatService.send_message                                                *)
(***************************************************************************)
SendMessageRoute(r) ==
    \E u \in Users, m \in Messages :
        /\ CanBegin(r)
        /\ get_chat_service(u)
        /\ Begin(r, [op |-> "send_message", user |-> u, message |-> m, pc |-> "sm_check"])
        /\ UNCHANGED <<cv2, stop_capture, capture_thread, camera, conversation_history,
                       threads, handles, emotional_data, depression_scores>>

\* The blank-message return, or the append of the user turn.
SmCheck(r) ==
    /\ requests[r].pc = "sm_check"
    /\ IF IsBlank(requests[r].message)
       THEN /\ requests' = Finish(r, Return("assistant", Plain("clarify"), None, NoAnalysis))
            /\ UNCHANGED conversation_history
       ELSE /\ conversation_history' =
                   Append(conversation_history,
                          Turn("user", Content("message", <<>>, requests[r].message),
                               requests[r].rid, requests[r].user))
            /\ requests' = Upd(r, [pc |-> "sm_analyze"])
    /\ UNCHANGED <<cv2, calls, chat_service, user_id, stop_capture, capture_thread, camera,
                   threads, handles, emotional_data, depression_scores>>

\* A write that stores the event and leaves out the depression record.
PushEventNoRecord(u, source, by, emotion, depression) ==
    /\ emotional_data' =
           [emotional_data EXCEPT ![u] =
               Append(@, [source |-> source, by |-> by, emotion |-> emotion,
                          depression_score |-> depression.depression_score])]
    /\ UNCHANGED depression_scores

\* A write that stores the record under its own score rather than the event's.
PushEventOwnScore(u, source, by, emotion, depression) ==
    /\ emotional_data' =
           [emotional_data EXCEPT ![u] =
               Append(@, [source |-> source, by |-> by, emotion |-> emotion,
                          depression_score |-> depression.depression_score])]
    /\ depression_scores' =
           [depression_scores EXCEPT ![u] =
               Append(@, [by |-> by, source |-> source,
                          score |-> 0,
                          level |-> depression.depression_level])]

\* A write that replaces the user's lists by the new entries ($set for $push).
PushEventReplace(u, source, by, emotion, depression) ==
    /\ emotional_data' =
           [emotional_data EXCEPT ![u] =
               <<[source |-> source, by |-> by, emotion |-> emotion,
                  depression_score |-> depression.depression_score]>>]
    /\ depression_scores' =
           [depression_scores EXCEPT ![u] =
               <<[by |-> by, source |-> source,
                  score |-> depression.depression_score,
                  level |-> depression.depression_level]>>]

\* The '$push' of one emotional_data entry and one depression_scores entry.
\* `by` stands for the entry's timestamp: it names the writer.
PushEvent(u, source, by, emotion, depression) ==
    /\ emotional_data' =
           [emotional_data EXCEPT ![u] =
               Append(@, [source |-> source, by |-> by, emotion |-> emotion,
                          depression_score |-> depression.depression_score])]
    /\ depression_scores' =
           [depression_scores EXCEPT ![u] =
               Append(@, [by |-> by, source |-> source,
                          score |-> depression.depression_score,
                          level |-> depression.depression_level])]

\* The first try block: detect_from_text on the message, then detect_depression
\* on it, which runs detect_from_text again (each run of the text pipeline
\* answers its estimate, or raises inside detect_from_text, which then yields
\* unknown/0.0 for that run), then the write to the sink, which may raise; the
\* except branch replaces both results.
SmAnalyze(r) ==
    \E est \in ChatEstimates \cup {Unknown}, again \in ChatEstimates \cup {Unknown},
       write \in {"ok", "raises"} :
        LET er == est
            da == DepressionResult(fuse_emotions(again, None, None))
        IN  /\ requests[r].pc = "sm_analyze"
            /\ IF user_id = "None"
               THEN /\ write = "ok"
                    /\ requests' = Upd(r, [pc |-> "sm_generate", emotion_result |-> er,
                                           depression_analysis |-> da])
                    /\ UNCHANGED <<emotional_data, depression_scores>>
               ELSE IF write = "ok"
               THEN /\ PushEvent(user_id, "chat", requests[r].rid, er, da)
                    /\ requests' = Upd(r, [pc |-> "sm_generate", emotion_result |-> er,
                                           depression_analysis |-> da])
               ELSE /\ requests' = Upd(r, [pc |-> "sm_generate", emotion_result |-> Unknown,
                                           depression_analysis |-> FailedAnalysis])
                    /\ UNCHANGED <<emotional_data, depression_scores>>
            /\ UNCHANGED <<cv2, calls, svars, threads, handles>>

\* The whole history instead of its last five turns.
LastAll(h) == h

\* conversation_history[-5:]
LastFive(h) == IF Len(h) <= 5 THEN h ELSE SubSeq(h, Len(h) - 4, Len(h))

\* The system message, then the last five turns; then the reply is generated:
\* by ollama.chat ("llm"), by _get_fallback_response when ollama is missing or
\* raises ("fallback"), or not at all when the try block raises outside the
\* backend call ("fails"), which the outer except branch handles.
SmGenerate(r) ==
    \E g \in {"llm", "fallback", "fails"} :
        /\ requests[r].pc = "sm_generate"
        /\ requests' =
               Upd(r, [pc |-> "sm_reply", reply |-> g,
                       formatted_history |->
                           <<Turn("system", Plain("system"), requests[r].rid, requests[r].user)>>
                               \o LastFive(conversation_history)])
        /\ UNCHANGED <<cv2, calls, svars, threads, handles, emotional_data, depression_scores>>

\* An enhancement whose emotion rule is a further elif of the risk rules.
EnhanceExclusive(emotion, depression) ==
    IF depression.depression_level = "high" /\ depression.depression_score > 70
    THEN <<"resources">>
    ELSE IF depression.depression_level = "moderate" /\ depression.depression_score > 40
    THEN <<"encouragement">>
    ELSE IF lower(emotion.label) \in {"sadness", "fear", "anger", "joy"} /\ emotion.score > 700
    THEN <<lower(emotion.label)>>
    ELSE <<>>

\* _enhance_response_with_emotional_context: the paragraphs it appends.
Enhance(emotion, depression) ==
    LET risk == IF depression.depression_level = "high" /\ depression.depression_score > 70
                THEN <<"resources">>
                ELSE IF depression.depression_level = "moderate"
                        /\ depression.depression_score > 40
                THEN <<"encouragement">>
                ELSE <<>>
        emo  == IF lower(emotion.label) \in {"sadness", "fear", "anger", "joy"}
                   /\ emotion.score > 700
                THEN <<lower(emotion.label)>>
                ELSE <<>>
    IN  risk \o emo

\* A send_message without its outer except: the failure reaches the caller.
SmReplyNoExcept(r) ==
    /\ requests[r].pc = "sm_reply"
    /\ IF requests[r].reply # "fails"
       THEN /\ conversation_history' =
                   Append(conversation_history,
                          Turn("assistant", Plain(requests[r].reply),
                               requests[r].rid, requests[r].user))
            /\ requests' =
                   Finish(r, Return("assistant",
                                    Content(requests[r].reply,
                                            Enhance(requests[r].emotion_result,
                                                    requests[r].depression_analysis),
                                            <<>>),
                                    requests[r].emotion_result,
                                    requests[r].depression_analysis))
       ELSE /\ UNCHANGED conversation_history
            /\ requests' = Finish(r, Return("raised", Plain("Exception"), None, NoAnalysis))
    /\ UNCHANGED <<cv2, calls, chat_service, user_id, stop_capture, capture_thread, camera,
                   threads, handles, emotional_data, depression_scores>>

\* A send_message whose outer except branch returns the trouble-connecting
\* reply without appending it.
SmReplyTroubleNotAppended(r) ==
    /\ requests[r].pc = "sm_reply"
    /\ IF requests[r].reply # "fails"
       THEN /\ conversation_history' =
                   Append(conversation_history,
                          Turn("assistant", Plain(requests[r].reply),
                               requests[r].rid, requests[r].user))
            /\ requests' =
                   Finish(r, Return("assistant",
                                    Content(requests[r].reply,
                                            Enhance(requests[r].emotion_result,
                                                    requests[r].depression_analysis),
                                            <<>>),
                                    requests[r].emotion_result,
                                    requests[r].depression_analysis))
       ELSE /\ UNCHANGED conversation_history
            /\ requests' = Finish(r, Return("assistant", Plain("trouble"), None, NoAnalysis))
    /\ UNCHANGED <<cv2, calls, chat_service, user_id, stop_capture, capture_thread, camera,
                   threads, handles, emotional_data, depression_scores>>

\* A send_message that stores the enhanced reply in the history.
SmReplyStoresEnhanced(r) ==
    /\ requests[r].pc = "sm_reply"
    /\ IF requests[r].reply # "fails"
       THEN /\ conversation_history' =
                   Append(conversation_history,
                          Turn("assistant",
                               Content(requests[r].reply,
                                       Enhance(requests[r].emotion_result,
                                               requests[r].depression_analysis),
                                       <<>>),
                               requests[r].rid, requests[r].user))
            /\ requests' =
                   Finish(r, Return("assistant",
                                    Content(requests[r].reply,
                                            Enhance(requests[r].emotion_result,
                                                    requests[r].depression_analysis),
                                            <<>>),
                                    requests[r].emotion_result,
                                    requests[r].depression_analysis))
       ELSE /\ conversation_history' =
                   Append(conversation_history,
                          Turn("assistant", Plain("trouble"), requests[r].rid, requests[r].user))
            /\ requests' = Finish(r, Return("assistant", Plain("trouble"), None, NoAnalysis))
    /\ UNCHANGED <<cv2, calls, chat_service, user_id, stop_capture, capture_thread, camera,
                   threads, handles, emotional_data, depression_scores>>

\* A send_message that answers a backend failure with the trouble-connecting
\* reply instead of the fallback responder's.
SmReplyBackendError(r) ==
    /\ requests[r].pc = "sm_reply"
    /\ IF requests[r].reply = "llm"
       THEN /\ conversation_history' =
                   Append(conversation_history,
                          Turn("assistant", Plain(requests[r].reply),
                               requests[r].rid, requests[r].user))
            /\ requests' =
                   Finish(r, Return("assistant",
                                    Content(requests[r].reply,
                                            Enhance(requests[r].emotion_result,
                                                    requests[r].depression_analysis),
                                            <<>>),
                                    requests[r].emotion_result,
                                    requests[r].depression_analysis))
       ELSE /\ conversation_history' =
                   Append(conversation_history,
                          Turn("assistant", Plain("trouble"), requests[r].rid, requests[r].user))
            /\ requests' = Finish(r, Return("assistant", Plain("trouble"), None, NoAnalysis))
    /\ UNCHANGED <<cv2, calls, chat_service, user_id, stop_capture, capture_thread, camera,
                   threads, handles, emotional_data, depression_scores>>

\* The append of the assistant turn and the return; in the outer except branch
\* the append of the trouble-connecting turn and its return.
SmReply(r) ==
    /\ requests[r].pc = "sm_reply"
    /\ IF requests[r].reply # "fails"
       THEN /\ conversation_history' =
                   Append(conversation_history,
                          Turn("assistant", Plain(requests[r].reply),
                               requests[r].rid, requests[r].user))
            /\ requests' =
                   Finish(r, Return("assistant",
                                    Content(requests[r].reply,
                                            Enhance(requests[r].emotion_result,
                                                    requests[r].depression_analysis),
                                            <<>>),
                                    requests[r].emotion_result,
                                    requests[r].depression_analysis))
       ELSE /\ conversation_history' =
                   Append(conversation_history,
                          Turn("assistant", Plain("trouble"), requests[r].rid, requests[r].user))
            /\ requests' = Finish(r, Return("assistant", Plain("trouble"), None, NoAnalysis))
    /\ UNCHANGED <<cv2, calls, chat_service, user_id, stop_capture, capture_thread, camera,
                   threads, handles, emotional_data, depression_scores>>

(***************************************************************************)
(* ChatService.stop_background_capture, called on the existing service     *)
(***************************************************************************)
\* self.stop_capture = True
StopCall(r) ==
    /\ CanBegin(r)
    /\ chat_service = "ChatService"
    /\ stop_capture' = TRUE
    /\ Begin(r, [op |-> "stop_background_capture", pc |-> "st_check"])
    /\ UNCHANGED <<cv2, chat_service, user_id, capture_thread, camera, conversation_history,
                   threads, handles, emotional_data, depression_scores>>

\* if self.camera:
StopCheck(r) ==
    /\ requests[r].pc = "st_check"
    /\ requests' =
           IF camera # NoHandle
           THEN Upd(r, [pc |-> "st_release"])
           ELSE Finish(r, Return("returned", Plain("None"), None, NoAnalysis))
    /\ UNCHANGED <<cv2, calls, svars, threads, handles, emotional_data, depression_scores>>

\* A stop that drops the reference without releasing the device.
StopReleaseKeepsOpen(r) ==
    /\ requests[r].pc = "st_release"
    /\ requests' = Upd(r, [pc |-> "st_clear"])
    /\ UNCHANGED <<cv2, calls, svars, threads, handles, emotional_data, depression_scores>>

\* self.camera.release(): the attribute is read again; None has no release().
StopRelease(r) ==
    /\ requests[r].pc = "st_release"
    /\ IF camera = NoHandle
       THEN /\ requests' = Finish(r, Return("raised", Plain("AttributeError"), None, NoAnalysis))
            /\ UNCHANGED handles
       ELSE /\ handles' = [handles EXCEPT ![camera] = "released"]
            /\ requests' = Upd(r, [pc |-> "st_clear"])
    /\ UNCHANGED <<cv2, calls, svars, threads, emotional_data, depression_scores>>

\* self.camera = None
StopClear(r) ==
    /\ requests[r].pc = "st_clear"
    /\ camera' = NoHandle
    /\ requests' = Finish(r, Return("returned", Plain("None"), None, NoAnalysis))
    /\ UNCHANGED <<cv2, calls, chat_service, user_id, stop_capture, capture_thread,
                   conversation_history, threads, handles, emotional_data, depression_scores>>

(***************************************************************************)
(* ChatService._capture_loop, on its own thread                            *)
(***************************************************************************)
\* What the image classifier may answer for a captured frame.
ImageEstimates == {[label |-> "fear", score |-> 800]}

RECURSIVE SumLen(_, _)
SumLen(f, S) ==
    IF S = {} THEN 0
    ELSE LET u == CHOOSE x \in S : TRUE IN Len(f[u]) + SumLen(f, S \ {u})

IsBackground(e) == e.source = "background_image"

\* Frames analysed and stored so far.
Captured == SumLen([u \in Users |-> SelectSeq(emotional_data[u], IsBackground)], Users)

\* self.camera = cv2.VideoCapture(0)
CaptureOpen(t) ==
    /\ threads[t] = "open"
    /\ handles' = [handles EXCEPT ![t] = "open"]
    /\ camera' = t
    /\ threads' = [threads EXCEPT ![t] = "loop"]
    /\ UNCHANGED <<cv2, calls, chat_service, user_id, stop_capture, capture_thread,
                   conversation_history, emotional_data, depression_scores, requests>>

\* while not self.stop_capture: (entered after a sleep, or for the first time)
CaptureLoop(t) ==
    /\ threads[t] = "loop"
    /\ threads' = [threads EXCEPT ![t] = IF stop_capture THEN "finally" ELSE "read"]
    /\ UNCHANGED <<cv2, calls, svars, handles, emotional_data, depression_scores, requests>>

\* ret, frame = self.camera.read(): None has no read(); a released device
\* yields no frame; an open one yields a frame or not; saving the frame to the
\* temporary file may raise.
CaptureRead(t) ==
    \E outcome \in {"frame", "no_frame", "error"} :
        /\ threads[t] = "read"
        /\ IF camera = NoHandle THEN outcome = "error"
           ELSE IF handles[camera] # "open" THEN outcome = "no_frame"
           ELSE TRUE
        /\ threads' = [threads EXCEPT ![t] =
               CASE outcome = "frame" -> "analyze"
                 [] outcome = "no_frame" -> "retry"
                 [] OTHER -> "finally"]
        /\ UNCHANGED <<cv2, calls, svars, handles, emotional_data, depression_scores, requests>>

\* A loop that gives up when the device yields no frame.
CaptureRetryGivesUp(t) ==
    /\ threads[t] = "retry"
    /\ threads' = [threads EXCEPT ![t] = "finally"]
    /\ UNCHANGED <<cv2, calls, svars, handles, emotional_data, depression_scores, requests>>

\* if not ret: print(...); time.sleep(5); continue
CaptureRetry(t) ==
    /\ threads[t] = "retry"
    /\ threads' = [threads EXCEPT ![t] = "loop"]
    /\ UNCHANGED <<cv2, calls, svars, handles, emotional_data, depression_scores, requests>>

\* The inner try block: the two classifier calls on the saved frame, which
\* answer alike, and the write to the sink (any exception is caught and
\* printed); then the temporary file is removed and the thread sleeps
\* capture_interval.
CaptureAnalyze(t) ==
    \E est \in ImageEstimates \cup {Unknown}, write \in {"ok", "raises"} :
        LET er == est
            da == DepressionResult(fuse_emotions(None, None, est))
        IN  /\ threads[t] = "analyze"
            /\ IF user_id # "None" /\ write = "ok"
               THEN /\ Captured < MaxCaptures
                    /\ PushEvent(user_id, "background_image", t, er, da)
               ELSE UNCHANGED <<emotional_data, depression_scores>>
            /\ threads' = [threads EXCEPT ![t] = "loop"]
            /\ UNCHANGED <<cv2, calls, svars, handles, requests>>

\* finally: if self.camera:
CaptureFinally(t) ==
    /\ threads[t] = "finally"
    /\ threads' = [threads EXCEPT ![t] = IF camera # NoHandle THEN "release" ELSE "dead"]
    /\ UNCHANGED <<cv2, calls, svars, handles, emotional_data, depression_scores, requests>>

\* self.camera.release(): the attribute is read again; on None the
\* AttributeError ends the thread.
CaptureRelease(t) ==
    /\ threads[t] = "release"
    /\ IF camera = NoHandle
       THEN /\ threads' = [threads EXCEPT ![t] = "dead"]
            /\ UNCHANGED handles
       ELSE /\ handles' = [handles EXCEPT ![camera] = "released"]
            /\ threads' = [threads EXCEPT ![t] = "clear"]
    /\ UNCHANGED <<cv2, calls, svars, emotional_data, depression_scores, requests>>

\* self.camera = None
CaptureClear(t) ==
    /\ threads[t] = "clear"
    /\ camera' = NoHandle
    /\ threads' = [threads EXCEPT ![t] = "dead"]
    /\ UNCHANGED <<cv2, calls, chat_service, user_id, stop_capture, capture_thread,
                   conversation_history, handles, emotional_data, depression_scores, requests>>

(***************************************************************************)
(* chat_service.py: _get_fallback_response.  A message is the sequence of  *)
(* its characters; a reply is kept as the pool it was drawn from.          *)
(***************************************************************************)
Upper == <<"A", "B", "C", "D", "E", "F", "G", "H", "I", "J", "K", "L", "M",
           "N", "O", "P", "Q", "R", "S", "T", "U", "V", "W", "X", "Y", "Z">>
Lower == <<"a", "b", "c", "d", "e", "f", "g", "h", "i", "j", "k", "l", "m",
           "n", "o", "p", "q", "r", "s", "t", "u", "v", "w", "x", "y", "z">>

\* user_message.lower()
message_lower(m) ==
    [k \in 1..Len(m) |->
        IF \E n \in 1..Len(Upper) : Upper[n] = m[k]
        THEN Lower[CHOOSE n \in 1..Len(Upper) : Upper[n] = m[k]]
        ELSE m[k]]

\* `word in message_lower` on strings: word occurs in it as a substring.
IsSubstring(word, m) ==
    \E i \in 0..(Len(m) - Len(word)) : SubSeq(m, i + 1, i + Len(word)) = word

\* any(word in message_lower for word in words)
AnyIn(words, m) == \E n \in 1..Len(words) : IsSubstring(words[n], m)

\* The keyword lists of _get_fallback_response.
GreetingWords == <<<<"h", "e", "l", "l", "o">>, <<"h", "i">>, <<"h", "e", "y">>, <<"g", "r", "e", "e", "t", "i", "n", "g", "s">>>>
GratitudeWords == <<<<"t", "h", "a", "n", "k", "s">>, <<"t", "h", "a", "n", "k", " ", "y", "o", "u">>, <<"a", "p", "p", "r", "e", "c", "i", "a", "t", "e">>>>
WhoAreYou == <<"w", "h", "o", " ", "a", "r", "e", " ", "y", "o", "u">>
WhatAreYou == <<"w", "h", "a", "t", " ", "a", "r", "e", " ", "y", "o", "u">>
HelpWords == <<<<"h", "e", "l", "p">>, <<"a", "s", "s", "i", "s", "t">>, <<"s", "u", "p", "p", "o", "r", "t">>>>
FeelingWords == <<<<"i", " ", "f", "e", "e", "l">>, <<"f", "e", "e", "l", "i", "n", "g">>, <<"f", "e", "l", "t">>, <<"i", " ", "a", "m">>, <<"i", "'", "m">>>>
SadWords == <<<<"s", "a", "d">>, <<"d", "o", "w", "n">>, <<"d", "e", "p", "r", "e", "s", "s", "e", "d">>, <<"u", "n", "h", "a", "p", "p", "y">>, <<"m", "i", "s", "e", "r", "a", "b", "l", "e">>>>
AngryWords == <<<<"a", "n", "g", "r", "y">>, <<"m", "a", "d">>, <<"f", "r", "u", "s", "t", "r", "a", "t", "e", "d">>, <<"a", "n", "n", "o", "y", "e", "d">>, <<"i", "r", "r", "i", "t", "a", "t", "e", "d">>>>
ScaredWords == <<<<"s", "c", "a", "r", "e", "d">>, <<"a", "f", "r", "a", "i", "d">>, <<"a", "n", "x", "i", "o", "u", "s">>, <<"n", "e", "r", "v", "o", "u", "s">>, <<"w", "o", "r", "r", "i", "e", "d">>>>
HappyWords == <<<<"h", "a", "p", "p", "y">>, <<"g", "o", "o", "d">>, <<"g", "r", "e", "a", "t">>, <<"w", "o", "n", "d", "e", "r", "f", "u", "l">>, <<"f", "a", "n", "t", "a", "s", "t", "i", "c">>>>

\* The pools a fallback reply is drawn from.
Pools == {"greetings", "gratitude_responses", "bot_descriptions", "help_responses",
          "sadness", "anger", "fear", "joy", "general_responses"}

\* A responder whose feeling statements without an emotion keyword get the
\* general reply.
get_fallback_response_no_fall_through(emotion, depression, message) ==
    LET ml == message_lower(message)
        label == lower(emotion.label)
    IN  IF AnyIn(GreetingWords, ml) THEN "greetings"
        ELSE IF AnyIn(GratitudeWords, ml) THEN "gratitude_responses"
        ELSE IF IsSubstring(WhoAreYou, ml) \/ IsSubstring(WhatAreYou, ml) THEN "bot_descriptions"
        ELSE IF AnyIn(HelpWords, ml) THEN "help_responses"
        ELSE IF AnyIn(FeelingWords, ml)
        THEN IF AnyIn(SadWords, ml) THEN "sadness"
             ELSE IF AnyIn(AngryWords, ml) THEN "anger"
             ELSE IF AnyIn(ScaredWords, ml) THEN "fear"
             ELSE IF AnyIn(HappyWords, ml) THEN "joy"
             ELSE "general_responses"
        ELSE IF label \in {"sadness", "anger", "fear", "joy"} THEN label
        ELSE "general_responses"

\* _get_fallback_response(emotion, depression, user_message): the keyword
\* rules in order, each returning from its pool; a feeling statement without
\* an emotion keyword falls out of its if; then the rules on emotion['label'].
get_fallback_response(emotion, depression, message) ==
    LET ml == message_lower(message)
        label == lower(emotion.label)
        feeling == IF ~AnyIn(FeelingWords, ml) THEN "None"
                   ELSE IF AnyIn(SadWords, ml) THEN "sadness"
                   ELSE IF AnyIn(AngryWords, ml) THEN "anger"
                   ELSE IF AnyIn(ScaredWords, ml) THEN "fear"
                   ELSE IF AnyIn(HappyWords, ml) THEN "joy"
                   ELSE "None"
    IN  IF AnyIn(GreetingWords, ml) THEN "greetings"
        ELSE IF AnyIn(GratitudeWords, ml) THEN "gratitude_responses"
        ELSE IF IsSubstring(WhoAreYou, ml) \/ IsSubstring(WhatAreYou, ml) THEN "bot_descriptions"
        ELSE IF AnyIn(HelpWords, ml) THEN "help_responses"
        ELSE IF feeling # "None" THEN feeling
        ELSE IF label = "sadness" THEN "sadness"
        ELSE IF label = "anger" THEN "anger"
        ELSE IF label = "fear" THEN "fear"
        ELSE IF label = "joy" THEN "joy"
        ELSE "general_responses"

(***************************************************************************)
(* app.py: generate_depression_report and dashboard.  A mean is kept as    *)
(* the pair <<sum, count>> it is the quotient of; a depression score is in *)
(* hundredths, a confidence in thousandths.  A text is kept as the name of *)
(* the template it was made from.                                          *)
(***************************************************************************)
\* emotional_data[:20] after the sort, and depression_scores[-5:].
ReportWindow == 20
BadgeWindow == 5

RECURSIVE SumSeq(_)
SumSeq(q) == IF q = <<>> THEN 0 ELSE Head(q) + SumSeq(Tail(q))

Reverse(q) == [k \in 1..Len(q) |-> q[Len(q) + 1 - k]]

\* sum / len as the pair of the two.
Mean(sum, count) == <<sum, count>>

\* mean > hundredths (or thousandths), and mean >= mean.
Exceeds(mean, value) == mean[1] > value * mean[2]
AtLeast(m1, m2) == m1[1] * m2[2] >= m2[1] * m1[2]

\* The whole log in place of its most recent entries.
recent_data_all(events) == Reverse(events)

\* emotional_data.sort(key=timestamp, reverse=True); recent_data = emotional_data[:20]
\* (the log is in the order of its timestamps).
recent_data(events) ==
    LET sorted == Reverse(events)
    IN  IF Len(sorted) <= ReportWindow THEN sorted ELSE SubSeq(sorted, 1, ReportWindow)

\* A mean computed without the test for an empty list.
avg_depression_score_unguarded(recent) ==
    Mean(SumSeq([k \in 1..Len(recent) |-> recent[k].depression_score]), Len(recent))

\* sum(depression_scores) / len(depression_scores) if depression_scores else 0
avg_depression_score(recent) ==
    IF recent # <<>>
    THEN Mean(SumSeq([k \in 1..Len(recent) |-> recent[k].depression_score]), Len(recent))
    ELSE Mean(0, 1)

\* The keys of emotions_count in insertion order: the labels of recent_data in
\* lower case, each where it first occurs.
RECURSIVE emotions_count_keys(_)
emotions_count_keys(recent) ==
    IF recent = <<>> THEN <<>>
    ELSE LET front == emotions_count_keys(SubSeq(recent, 1, Len(recent) - 1))
             label == lower(recent[Len(recent)].emotion.label)
         IN  IF \E k \in 1..Len(front) : front[k] = label THEN front ELSE Append(front, label)

\* emotions_count[label]: its count and its total_score.
emotions_count(recent, label) ==
    LET hits == SelectSeq([k \in 1..Len(recent) |-> recent[k].emotion],
                          LAMBDA e : lower(e.label) = label)
    IN  [count |-> Len(hits), total_score |-> SumSeq([k \in 1..Len(hits) |-> hits[k].score])]

\* emotions.sort(key=score, reverse=True): stable, so of entries with equal
\* scores the one that came first stays first.
RECURSIVE SortByScore(_)
SortByScore(es) ==
    IF es = <<>> THEN <<>>
    ELSE LET best == CHOOSE n \in 1..Len(es) :
                         /\ \A m \in 1..Len(es) : AtLeast(es[n].score, es[m].score)
                         /\ \A m \in 1..(n - 1) : ~AtLeast(es[m].score, es[n].score)
         IN  <<es[best]>> \o SortByScore(SubSeq(es, 1, best - 1) \o SubSeq(es, best + 1, Len(es)))

\* The list of {'label': label.capitalize(), 'score': avg_score, 'count': count}.
emotions(recent) ==
    LET keys == emotions_count_keys(recent)
    IN  SortByScore([k \in 1..Len(keys) |->
            [label |-> capitalize(keys[k]),
             score |-> Mean(emotions_count(recent, keys[k]).total_score,
                            emotions_count(recent, keys[k]).count),
             count |-> emotions_count(recent, keys[k]).count]])

\* if avg > 0.6 ... elif avg > 0.3 ... else: the tier of the summary and of the
\* recommendations.
ReportTier(avg) ==
    IF Exceeds(avg, 60) THEN "high" ELSE IF Exceeds(avg, 30) THEN "moderate" ELSE "low"

\* The emotion_analysis text: its template and the emotion it names.
emotion_analysis(es) ==
    IF es # <<>>
    THEN LET dominant_emotion == lower(es[1].label)
         IN  IF dominant_emotion = "joy" THEN [template |-> "joy", dominant |-> dominant_emotion]
             ELSE IF dominant_emotion \in {"sadness", "fear", "anger"}
             THEN [template |-> "negative", dominant |-> dominant_emotion]
             ELSE [template |-> "mix", dominant |-> dominant_emotion]
    ELSE [template |-> "not_enough_data", dominant |-> "None"]

\* The titles of the recommendations.
recommendations(avg) ==
    <<"Practice Mindfulness">> \o
    (IF Exceeds(avg, 60) THEN <<"Seek Professional Support", "Establish Daily Routine">>
     ELSE IF Exceeds(avg, 30) THEN <<"Physical Activity", "Social Connection">>
     ELSE <<"Maintain Healthy Habits", "Preventive Self-Care">>)

\* The report dictionary built from the user's emotional_data.
generate_depression_report(events) ==
    LET recent == recent_data(events)
        avg == avg_depression_score(recent)
        es == emotions(recent)
    IN  [depression_score |-> avg, emotions |-> es, summary |-> ReportTier(avg),
         emotion_analysis |-> emotion_analysis(es), recommendations |-> recommendations(avg)]

\* dashboard: the mean of the last five depression_scores (0 without any) and
\* the badge it selects.
dashboard(scores) ==
    LET recent_scores == IF Len(scores) >= BadgeWindow
                         THEN SubSeq(scores, Len(scores) - BadgeWindow + 1, Len(scores))
                         ELSE scores
        avg_score == IF scores # <<>>
                     THEN Mean(SumSeq([k \in 1..Len(recent_scores) |-> recent_scores[k].score]),
                               Len(recent_scores))
                     ELSE Mean(0, 1)
    IN  IF Exceeds(avg_score, 60) THEN "High"
        ELSE IF Exceeds(avg_score, 30) THEN "Moderate"
        ELSE "Low"

NoReport == [depression_score |-> <<0, 1>>, emotions |-> <<>>, summary |-> "None",
             emotion_analysis |-> [template |-> "None", dominant |-> "None"],
             recommendations |-> <<>>]

\* No call on the fallback responder or on the report routes is under way.
InitReportIdle ==
    /\ user_message = NoneMsg
    /\ fallback_response = "None"
    /\ report = NoReport
    /\ depression_risk = "None"

(***************************************************************************)
(* The service under concurrent callers.                                   *)
(***************************************************************************)
InitEmotionIdle ==
    /\ text_em = None
    /\ audio_em = None
    /\ image_em = None
    /\ fused_emotion = None
    /\ analysis = NoAnalysis
    /\ epc = "idle"
    /\ enhanced_response = <<>>
    /\ InitReportIdle

\* Without OpenCV (`cv2 = None`, chat_service.py:16-20) start_background_capture
\* returns before it touches the stop flag or creates a thread, no capture
\* thread exists and self.camera stays None: the calls on the service are all
\* that runs.
Init ==
    /\ InitService
    /\ cv2 = FALSE
    /\ InitEmotionIdle

Next ==
    \E r \in Workers :
        \/ (StartChatRoute(r) /\ UNCHANGED evars)
        \/ (StartChatReset(r) /\ UNCHANGED evars)
        \/ (StartChatWelcome(r) /\ UNCHANGED evars)
        \/ (SbcCheck(r) /\ UNCHANGED evars)
        \/ (SendMessageRoute(r) /\ UNCHANGED evars)
        \/ (SmCheck(r) /\ UNCHANGED evars)
        \/ (SmAnalyze(r) /\ UNCHANGED evars)
        \/ (SmGenerate(r) /\ UNCHANGED evars)
        \/ (SmReply(r) /\ UNCHANGED evars)
        \/ (StopCall(r) /\ UNCHANGED evars)
        \/ (StopCheck(r) /\ UNCHANGED evars)

Spec == Init /\ [][Next]_vars

\* With OpenCV, callers that start chats and stop the capture, and the capture
\* threads they create.
InitCapture ==
    /\ InitService
    /\ cv2 = TRUE
    /\ InitEmotionIdle

NextCapture ==
    \/ \E r \in Workers :
        \/ (StartChatRoute(r) /\ UNCHANGED evars)
        \/ (StartChatReset(r) /\ UNCHANGED evars)
        \/ (StartChatWelcome(r) /\ UNCHANGED evars)
        \/ (SbcCheck(r) /\ UNCHANGED evars)
        \/ (SbcFlag(r) /\ UNCHANGED evars)
        \/ (SbcSpawn(r) /\ UNCHANGED evars)
        \/ (StopCall(r) /\ UNCHANGED evars)
        \/ (StopCheck(r) /\ UNCHANGED evars)
        \/ (StopRelease(r) /\ UNCHANGED evars)
        \/ (StopClear(r) /\ UNCHANGED evars)
    \/ \E t \in ThreadIds :
        \/ (CaptureOpen(t) /\ UNCHANGED evars)
        \/ (CaptureLoop(t) /\ UNCHANGED evars)
        \/ (CaptureRead(t) /\ UNCHANGED evars)
        \/ (CaptureRetry(t) /\ UNCHANGED evars)
        \/ (CaptureAnalyze(t) /\ UNCHANGED evars)
        \/ (CaptureFinally(t) /\ UNCHANGED evars)
        \/ (CaptureRelease(t) /\ UNCHANGED evars)
        \/ (CaptureClear(t) /\ UNCHANGED evars)

SpecCapture == InitCapture /\ [][NextCapture]_vars

\* The two writers of the sink side by side.  The state in which
\* start_chat("text") has just returned for user u with OpenCV present: the
\* service exists, the history holds the welcome, and the capture thread the
\* call started is about to open the device.
StartedFor(u) ==
    /\ cv2 = TRUE
    /\ chat_service = "ChatService"
    /\ user_id = u
    /\ stop_capture = FALSE
    /\ capture_thread = 1
    /\ camera = NoHandle
    /\ conversation_history = <<Turn("assistant", Plain("welcome"), 1, u)>>
    /\ threads = [t \in ThreadIds |-> IF t = 1 THEN "open" ELSE "unborn"]
    /\ handles = [h \in ThreadIds |-> "unopened"]
    /\ emotional_data = [v \in Users |-> <<>>]
    /\ depression_scores = [v \in Users |-> <<>>]
    /\ requests = [w \in Workers |->
           IF w = 1
           THEN With(NewRequest,
                     [op |-> "start_chat", rid |-> 1, user |-> u, chat_type |-> "text",
                      pc |-> "done", reply |-> "welcome",
                      ret |-> Return("assistant", Plain("welcome"), None, NoAnalysis)])
           ELSE NewRequest]
    /\ calls = 1

\* The users differ in name only: the session is the one of user "A".
InitLog ==
    /\ StartedFor("A")
    /\ InitEmotionIdle

\* Callers that send messages for the user of the session, and the capture
\* thread.
NextLog ==
    \/ \E r \in Workers :
        \/ (SendMessageRoute(r) /\ user_id' = user_id /\ UNCHANGED evars)
        \/ (SmCheck(r) /\ UNCHANGED evars)
        \/ (SmAnalyze(r) /\ UNCHANGED evars)
        \/ (SmGenerate(r) /\ UNCHANGED evars)
        \/ (SmReply(r) /\ UNCHANGED evars)
    \/ \E t \in ThreadIds :
        \/ (CaptureOpen(t) /\ UNCHANGED evars)
        \/ (CaptureLoop(t) /\ UNCHANGED evars)
        \/ (CaptureRead(t) /\ UNCHANGED evars)
        \/ (CaptureRetry(t) /\ UNCHANGED evars)
        \/ (CaptureAnalyze(t) /\ UNCHANGED evars)
        \/ (CaptureFinally(t) /\ UNCHANGED evars)
        \/ (CaptureRelease(t) /\ UNCHANGED evars)
        \/ (CaptureClear(t) /\ UNCHANGED evars)

SpecLog == InitLog /\ [][NextLog]_vars

\* With OpenCV, one client that starts chats and sends messages, one call
\* after the other, beside the capture threads its chats create.  Nobody
\* stops the capture: a thread that ends has ended on an error.
NextFailure ==
    \/ \E r \in {1} :
        \/ (StartChatRoute(r) /\ UNCHANGED evars)
        \/ (StartChatReset(r) /\ UNCHANGED evars)
        \/ (StartChatWelcome(r) /\ UNCHANGED evars)
        \/ (SbcCheck(r) /\ UNCHANGED evars)
        \/ (SbcFlag(r) /\ UNCHANGED evars)
        \/ (SbcSpawn(r) /\ UNCHANGED evars)
        \/ (SendMessageRoute(r) /\ UNCHANGED evars)
        \/ (SmCheck(r) /\ UNCHANGED evars)
        \/ (SmAnalyze(r) /\ UNCHANGED evars)
        \/ (SmGenerate(r) /\ UNCHANGED evars)
        \/ (SmReply(r) /\ UNCHANGED evars)
    \/ \E t \in ThreadIds :
        \/ (CaptureOpen(t) /\ UNCHANGED evars)
        \/ (CaptureLoop(t) /\ UNCHANGED evars)
        \/ (CaptureRead(t) /\ UNCHANGED evars)
        \/ (CaptureRetry(t) /\ UNCHANGED evars)
        \/ (CaptureAnalyze(t) /\ UNCHANGED evars)
        \/ (CaptureFinally(t) /\ UNCHANGED evars)
        \/ (CaptureRelease(t) /\ UNCHANGED evars)
        \/ (CaptureClear(t) /\ UNCHANGED evars)

SpecFailure == InitCapture /\ [][NextFailure]_vars

(***************************************************************************)
(* POST /analyze_text_emotion, /upload_activity_image and                  *)
(* /chat/analyze_image for the user of the Flask session: the classifier   *)
(* call, detect_depression (which runs the classifier again), and the one  *)
(* update_one with both pushes; when it raises the route answers 500 and   *)
(* nothing is written.  The ChatService is not involved.                   *)
(***************************************************************************)
RouteSources == {"text", "image", "chat_image"}

AnalyzeRoute ==
    \E u \in Users, source \in RouteSources, write \in {"ok", "raises"},
       est \in ChatEstimates \cup ImageEstimates \cup {Unknown},
       again \in ChatEstimates \cup ImageEstimates \cup {Unknown} :
        LET classifier == IF source = "text" THEN ChatEstimates ELSE ImageEstimates
            da == IF source = "text"
                  THEN DepressionResult(fuse_emotions(again, None, None))
                  ELSE DepressionResult(fuse_emotions(None, None, again))
        IN  /\ est \in classifier \cup {Unknown}
            /\ again \in classifier \cup {Unknown}
            /\ calls < (IF cv2 THEN MaxCaptureRequests ELSE MaxRequests)
            /\ calls' = calls + 1
            /\ IF write = "ok"
               THEN PushEvent(u, source, calls + 1, est, da)
               ELSE UNCHANGED <<emotional_data, depression_scores>>
            /\ UNCHANGED <<cv2, svars, threads, handles, requests>>

\* Every writer of the sink: the chat turns and the capture thread of the
\* session, and the analysis routes.
NextSink ==
    \/ NextLog
    \/ (AnalyzeRoute /\ UNCHANGED evars)

SpecSink == InitLog /\ [][NextSink]_vars

\* A session that has gone on for a while without OpenCV: the history holds
\* the welcome and two answered turns of calls made earlier (named 0), whose
\* sink writes did not go through; the calls counted by the bound come next.
EarlierTurn(role, base, text) == Turn(role, Content(base, <<>>, text), 0, "A")

InitHistory ==
    /\ cv2 = FALSE
    /\ chat_service = "ChatService"
    /\ user_id = "A"
    /\ stop_capture = FALSE
    /\ capture_thread = NoThread
    /\ camera = NoHandle
    /\ conversation_history =
           <<EarlierTurn("assistant", "welcome", <<>>),
             EarlierTurn("user", "message", <<"h", "i">>),
             EarlierTurn("assistant", "llm", <<>>),
             EarlierTurn("user", "message", <<"h", "i">>),
             EarlierTurn("assistant", "fallback", <<>>)>>
    /\ threads = [t \in ThreadIds |-> "unborn"]
    /\ handles = [h \in ThreadIds |-> "unopened"]
    /\ emotional_data = [u \in Users |-> <<>>]
    /\ depression_scores = [u \in Users |-> <<>>]
    /\ requests = [w \in Workers |-> NewRequest]
    /\ calls = 0
    /\ InitEmotionIdle

SpecHistory == InitHistory /\ [][Next]_vars

(***************************************************************************)
(* One call of detect_depression on classifier outputs drawn from the      *)
(* bounded input space.                                                    *)
(***************************************************************************)
InitEmotion ==
    /\ text_em \in Estimates \cup {None}
    /\ audio_em \in Estimates \cup {None}
    /\ image_em \in Estimates \cup {None}
    /\ fused_emotion = None
    /\ analysis = NoAnalysis
    /\ epc = "fuse"
    /\ enhanced_response = <<>>
    /\ InitReportIdle
    /\ InitService
    /\ cv2 = TRUE

\* fused_emotion = self.fuse_emotions(text_em, audio_em, image_em)
Fuse ==
    /\ epc = "fuse"
    /\ fused_emotion' = fuse_emotions(text_em, audio_em, image_em)
    /\ epc' = "score"
    /\ UNCHANGED <<text_em, audio_em, image_em, analysis, enhanced_response, fvars, cvars>>

\* the indicator lookup, the product, the rounding and the level
Score ==
    /\ epc = "score"
    /\ analysis' = DepressionResult(fused_emotion)
    /\ epc' = "done"
    /\ UNCHANGED <<text_em, audio_em, image_em, fused_emotion, enhanced_response, fvars, cvars>>

NextEmotion == Fuse \/ Score

SpecEmotion == InitEmotion /\ [][NextEmotion]_vars

(***************************************************************************)
(* One call of _get_fallback_response on a message and an emotion drawn    *)
(* from a bounded input space.  The emotion is held in text_em.            *)
(***************************************************************************)
\* Messages that reach the responder (none is blank): with one keyword, with
\* keywords of several rules, with a keyword inside another word, with capital
\* letters, and without any.
FallbackMessages ==
    {<<"h", "i">>,
     <<"H", "e", "l", "l", "o", " ", "t", "h", "e", "r", "e">>,
     <<"t", "h", "i", "s", " ", "i", "s", " ", "f", "i", "n", "e">>,
     <<"t", "h", "a", "n", "k", "s">>,
     <<"t", "h", "a", "n", "k", " ", "y", "o", "u", ",", " ", "h", "e", "y">>,
     <<"w", "h", "o", " ", "a", "r", "e", " ", "y", "o", "u">>,
     <<"w", "h", "a", "t", " ", "a", "r", "e", " ", "y", "o", "u", ",", " ", "t", "h", "a", "n", "k", "s">>,
     <<"h", "e", "l", "p", " ", "m", "e">>,
     <<"w", "h", "o", " ", "a", "r", "e", " ", "y", "o", "u", " ", "t", "o", " ", "h", "e", "l", "p">>,
     <<"i", " ", "f", "e", "e", "l", " ", "s", "a", "d">>,
     <<"I", "'", "m", " ", "s", "o", " ", "m", "a", "d">>,
     <<"i", " ", "a", "m", " ", "w", "o", "r", "r", "i", "e", "d">>,
     <<"f", "e", "e", "l", "i", "n", "g", " ", "g", "o", "o", "d">>,
     <<"i", " ", "f", "e", "e", "l", " ", "o", "d", "d">>,
     <<"o", "k">>,
     <<"i", " ", "f", "e", "e", "l", " ", "s", "a", "d", ",", " ", "h", "e", "l", "p">>,
     <<"s", "a", "d">>,
     <<"i", " ", "a", "m", " ", "m", "a", "d", " ", "a", "n", "d", " ", "s", "a", "d">>}

InitFallback ==
    /\ text_em \in Estimates
    /\ user_message \in FallbackMessages
    /\ fallback_response = "None"
    /\ report = NoReport
    /\ depression_risk = "None"
    /\ audio_em = None
    /\ image_em = None
    /\ fused_emotion = None
    /\ analysis = NoAnalysis
    /\ epc = "fallback"
    /\ enhanced_response = <<>>
    /\ InitService
    /\ cv2 = FALSE

\* assistant_message_content = self._get_fallback_response(emotion_result,
\* depression_analysis, message)
FallbackResponse ==
    /\ epc = "fallback"
    /\ fallback_response' = get_fallback_response(text_em, analysis, user_message)
    /\ epc' = "replied"
    /\ UNCHANGED <<text_em, audio_em, image_em, fused_emotion, analysis, enhanced_response,
                   user_message, report, depression_risk, cvars>>

NextFallback == FallbackResponse

SpecFallback == InitFallback /\ [][NextFallback]_vars

(***************************************************************************)
(* The report and the dashboard of user "A" over a log drawn from a        *)
(* bounded input space: every entry was written with the depression score  *)
(* and level detect_depression gave to its emotion.                        *)
(***************************************************************************)
\* Bounds: a log is at most MaxOlderEvents events, then FillerEvents equal
\* events or none, then at most MaxRecentEvents events.
MaxOlderEvents == 1
FillerEvents == 18
MaxRecentEvents == 3

\* Emotions of the events: scored 0.3 and 0.6 (the thresholds), 0.0, 0.48 and
\* 0.72; sadness in two spellings.
ReportEstimates ==
    {[label |-> "fear", score |-> 500], [label |-> "fear", score |-> 1000],
     [label |-> "joy", score |-> 900], [label |-> "Sadness", score |-> 600],
     [label |-> "sadness", score |-> 900]}

FillerEstimate == [label |-> "neutral", score |-> 500]

SeqsUpTo(n) == UNION {[1..k -> ReportEstimates] : k \in 0..n}

ReportLogs ==
    {older \o filler \o newer :
        older \in SeqsUpTo(MaxOlderEvents),
        filler \in {<<>>, [k \in 1..FillerEvents |-> FillerEstimate]},
        newer \in SeqsUpTo(MaxRecentEvents)}

\* The entries one analysed input pushes (see PushEvent).
EventOf(e) ==
    [source |-> "chat", by |-> 0, emotion |-> e,
     depression_score |-> DepressionResult(e).depression_score]
RecordOf(e) ==
    [by |-> 0, source |-> "chat", score |-> DepressionResult(e).depression_score,
     level |-> DepressionResult(e).depression_level]

InitReport ==
    /\ \E log \in ReportLogs :
          /\ emotional_data = [u \in Users |->
                 IF u = "A" THEN [k \in 1..Len(log) |-> EventOf(log[k])] ELSE <<>>]
          /\ depression_scores = [u \in Users |->
                 IF u = "A" THEN [k \in 1..Len(log) |-> RecordOf(log[k])] ELSE <<>>]
    /\ chat_service = "None"
    /\ user_id = "None"
    /\ stop_capture = FALSE
    /\ capture_thread = NoThread
    /\ camera = NoHandle
    /\ conversation_history = <<>>
    /\ threads = [t \in ThreadIds |-> "unborn"]
    /\ handles = [h \in ThreadIds |-> "unopened"]
    /\ requests = [w \in Workers |-> NewRequest]
    /\ calls = 0
    /\ cv2 = FALSE
    /\ InitEmotionIdle

\* POST /audio/generate_report for user "A"
GenerateReport ==
    /\ report = NoReport
    /\ report' = generate_depression_report(emotional_data["A"])
    /\ UNCHANGED <<text_em, audio_em, image_em, fused_emotion, analysis, epc, enhanced_response,
                   user_message, fallback_response, depression_risk, cvars>>

\* GET /dashboard for user "A"
Dashboard ==
    /\ depression_risk = "None"
    /\ depression_risk' = dashboard(depression_scores["A"])
    /\ UNCHANGED <<text_em, audio_em, image_em, fused_emotion, analysis, epc, enhanced_response,
                   user_message, fallback_response, report, cvars>>

NextReport == GenerateReport \/ Dashboard

SpecReport == InitReport /\ [][NextReport]_vars

(***************************************************************************)
(* One call of _enhance_response_with_emotional_context on an emotion and  *)
(* a depression dictionary drawn from a bounded input space.  The emotion  *)
(* is held in text_em and the depression dictionary in analysis.           *)
(***************************************************************************)
\* Confidences around the 0.7 threshold, and rounded depression scores (in
\* hundredths) around the 0.4 and 0.7 thresholds.
EnhanceConfidences == Scores \cup {700}
EnhanceScores == {0, 30, 40, 41, 59, 60, 70, 71, 72, 100}
EnhanceLevels == {"low", "moderate", "high", "unknown"}

InitEnhance ==
    /\ text_em \in [label : Labels, score : EnhanceConfidences]
    /\ analysis \in [emotional_state : {None}, depression_score : EnhanceScores,
                     depression_level : EnhanceLevels]
    /\ audio_em = None
    /\ image_em = None
    /\ fused_emotion = None
    /\ epc = "enhance"
    /\ enhanced_response = <<>>
    /\ InitReportIdle
    /\ InitService
    /\ cv2 = FALSE

\* enhanced_response = response + the paragraphs that apply
EnhanceResponse ==
    /\ epc = "enhance"
    /\ enhanced_response' = Enhance(text_em, analysis)
    /\ epc' = "enhanced"
    /\ UNCHANGED <<text_em, audio_em, image_em, fused_emotion, analysis, fvars, cvars>>

NextEnhance == EnhanceResponse

SpecEnhance == InitEnhance /\ [][NextEnhance]_vars

(***************************************************************************)
(* Claims about fuse_emotions and detect_depression (SpecEmotion).         *)
(***************************************************************************)
AllThree == Truthy(text_em) /\ Truthy(audio_em) /\ Truthy(image_em)

\* The weighted score a modality contributes to label l in three-input fusion.
Contribution(e, w, l) == IF e.label = l THEN Weighted(e.score, w) ELSE 0

\* C1: in three-input fusion the fused score is the sum of the weighted scores
\* (text 0.5, audio 0.3, image 0.2) of every modality that reports the fused
\* label.
C1_FusedScoreAddsAgreeing ==
    (epc # "fuse" /\ AllThree) =>
        fused_emotion.score =
            Contribution(text_em, 5, fused_emotion.label)
          + Contribution(audio_em, 3, fused_emotion.label)
          + Contribution(image_em, 2, fused_emotion.label)

\* The step function of the claim, on a returned score in hundredths.
LevelOfReturned(s) ==
    IF s < 30 THEN "low" ELSE IF s < 60 THEN "moderate" ELSE "high"

\* C2: the returned depression_level is the step function (0.3, 0.6) of the
\* returned two-decimal depression_score.
C2_LevelIsFunctionOfReturnedScore ==
    epc = "done" =>
        analysis.depression_level = LevelOfReturned(analysis.depression_score)

\* The weighted score label l accumulates over the three modalities.
Accumulated(l) ==
    Contribution(text_em, 5, l) + Contribution(audio_em, 3, l) + Contribution(image_em, 2, l)

\* C16: in three-input fusion the fused label is a label whose weighted score
\* accumulated over text (0.5), audio (0.3) and image (0.2) is maximal.
C16_LabelMaximisesAccumulated ==
    (epc # "fuse" /\ AllThree) =>
        \A l \in Labels : Accumulated(fused_emotion.label) >= Accumulated(l)

TextImage == Truthy(text_em) /\ Truthy(image_em) /\ ~Truthy(audio_em)
AudioImage == Truthy(audio_em) /\ Truthy(image_em) /\ ~Truthy(text_em)

\* C17: two-input fusion of equal labels keeps the label and adds the weighted
\* scores: 0.7*text + 0.3*image, and 0.6*audio + 0.4*image (scores in
\* thousandths, so ten times the fused score is compared).
C17_EqualLabelsAdd ==
    epc # "fuse" =>
        /\ (TextImage /\ text_em.label = image_em.label) =>
              /\ fused_emotion.label = text_em.label
              /\ 10 * fused_emotion.score = 7 * text_em.score + 3 * image_em.score
        /\ (AudioImage /\ audio_em.label = image_em.label) =>
              /\ fused_emotion.label = audio_em.label
              /\ 10 * fused_emotion.score = 6 * audio_em.score + 4 * image_em.score

\* C17 witness: text and image agree with different positive scores.
C17_Witness ==
    /\ epc = "done"
    /\ TextImage
    /\ text_em.label = image_em.label
    /\ text_em.score = 600
    /\ image_em.score = 900
    /\ fused_emotion.score = 690

\* The winner of two differing estimates x (weight wx tenths) and image (wi).
Winner(x, wx, img, wi) == IF wx * x.score >= wi * img.score THEN x ELSE img
WinnerWeight(x, wx, img, wi) == IF wx * x.score >= wi * img.score THEN wx ELSE wi

\* The fused estimate of differing labels is the winner's label with the
\* winner's weighted score.
MaxOfTwo(x, wx, img, wi) ==
    /\ fused_emotion.label = Winner(x, wx, img, wi).label
    /\ 10 * fused_emotion.score = WinnerWeight(x, wx, img, wi) * Winner(x, wx, img, wi).score

\* The fused score is neither the sum of the weighted scores nor a raw score.
NeverSumNorRaw(x, wx, img, wi) ==
    /\ 10 * fused_emotion.score # wx * x.score + wi * img.score
    /\ fused_emotion.score # x.score
    /\ fused_emotion.score # img.score

NotSumNorRawWhenPositive(x, wx, img, wi) ==
    /\ (x.score > 0 /\ img.score > 0) =>
           10 * fused_emotion.score < wx * x.score + wi * img.score
    /\ Winner(x, wx, img, wi).score > 0 =>
           fused_emotion.score < Winner(x, wx, img, wi).score

Present == {e \in {text_em, audio_em, image_em} : Truthy(e)}
NumPresent ==
    (IF Truthy(text_em) THEN 1 ELSE 0) + (IF Truthy(audio_em) THEN 1 ELSE 0)
        + (IF Truthy(image_em) THEN 1 ELSE 0)

\* C19: with no input fuse_emotions returns unknown/0.0; with exactly one input
\* it returns that estimate, label and score unchanged.
C19_ZeroOrOneInput ==
    epc # "fuse" =>
        /\ NumPresent = 0 => fused_emotion = [label |-> "unknown", score |-> 0]
        /\ NumPresent = 1 => fused_emotion \in Present

\* C19 witness: the audio estimate alone was fused.
C19_Witness ==
    /\ epc = "done"
    /\ ~Truthy(text_em)
    /\ ~Truthy(image_em)
    /\ audio_em = [label |-> "anger", score |-> 740]
    /\ fused_emotion = audio_em

\* The indicator table of the claim, in tenths.
IndicatorTable ==
    [l \in {"sadness", "fear", "disgust", "anger", "neutral", "surprise", "joy"} |->
        CASE l = "sadness" -> 8 [] l = "fear" -> 6 [] l = "disgust" -> 5 [] l = "anger" -> 4
          [] l = "neutral" -> 2 [] l = "surprise" -> 1 [] OTHER -> 0]

IndicatorWeight(l) ==
    IF lower(l) \in DOMAIN IndicatorTable THEN IndicatorTable[lower(l)] ELSE 3

\* x - y or y - x, whichever is not negative.
Distance(x, y) == IF x >= y THEN x - y ELSE y - x

\* C20: the returned depression_score is the weight of the fused label, looked
\* up without regard to case in the table (0.3 for a label not in it), times
\* the fused score, rounded to two decimals: in ten-thousandths it is within
\* half a hundredth of the product.
C20_ScoreIsWeightTimesScore ==
    epc = "done" =>
        Distance(100 * analysis.depression_score,
                 IndicatorWeight(fused_emotion.label) * fused_emotion.score) <= 50

\* C20 witness: the label "Sadness" with score 0.74 was scored 0.59.
C20_Witness ==
    /\ epc = "done"
    /\ fused_emotion = [label |-> "Sadness", score |-> 740]
    /\ analysis.depression_score = 59

LevelRank(level) == CASE level = "low" -> 1 [] level = "moderate" -> 2 [] OTHER -> 3

\* The ordering of the claim: sadness >= fear >= disgust >= anger >= neutral
\* >= surprise >= joy.
IndicatorOrder == <<"joy", "surprise", "neutral", "anger", "disgust", "fear", "sadness">>
OrderOf(l) == CHOOSE k \in 1..Len(IndicatorOrder) : IndicatorOrder[k] = l
Ordered == {IndicatorOrder[k] : k \in 1..Len(IndicatorOrder)}

\* C21: the returned score and level do not decrease when the confidence of
\* the fused estimate increases with its label fixed, and at equal confidence
\* the score follows the ordering of the labels.
C21_ScoreMonotone ==
    epc = "done" =>
        \A e \in Estimates :
            /\ (e.label = fused_emotion.label /\ e.score >= fused_emotion.score) =>
                  /\ DepressionResult(e).depression_score >= analysis.depression_score
                  /\ LevelRank(DepressionResult(e).depression_level)
                         >= LevelRank(analysis.depression_level)
            /\ (e.score = fused_emotion.score /\ e.label \in Ordered
                    /\ fused_emotion.label \in Ordered
                    /\ OrderOf(e.label) >= OrderOf(fused_emotion.label)) =>
                  DepressionResult(e).depression_score >= analysis.depression_score

\* C21 witness: fear at 0.6 was scored 0.36, moderate; fear at 1.0 is scored
\* high and anger at 0.6 is scored lower.
C21_Witness ==
    /\ epc = "done"
    /\ fused_emotion = [label |-> "fear", score |-> 600]
    /\ analysis.depression_score = 36
    /\ analysis.depression_level = "moderate"
    /\ DepressionResult([label |-> "fear", score |-> 1000]).depression_level = "high"
    /\ DepressionResult([label |-> "anger", score |-> 600]).depression_score = 24

\* C22: with every classifier score in [0,1], the fused score lies in [0,1]
\* (0..1000 thousandths) and the returned depression_score lies in [0,1]
\* (0..100 hundredths), for every arity and agreement pattern.
C22_ScoresInUnitInterval ==
    /\ epc # "fuse" => (fused_emotion.score >= 0 /\ fused_emotion.score <= 1000)
    /\ epc = "done" => (analysis.depression_score >= 0 /\ analysis.depression_score <= 100)

\* C22 witness: text and image agree, both with confidence 1.0, and the fused
\* score is 1.0.
C22_Witness ==
    /\ epc = "done"
    /\ TextImage
    /\ text_em.label = image_em.label
    /\ text_em.score = 1000
    /\ image_em.score = 1000
    /\ fused_emotion.score = 1000

\* C37: with a text and an audio estimate and no image estimate, fuse_emotions
\* returns the text estimate, label and score unchanged, and no audio estimate
\* in its place would change the result.
C37_TextAudioIsText ==
    (epc # "fuse" /\ text_em # None /\ audio_em # None /\ image_em = None) =>
        /\ fused_emotion = text_em
        /\ fused_emotion = fuse_emotions(text_em, None, None)
        /\ \A a \in Estimates : fuse_emotions(text_em, a, None) = fused_emotion

\* C37 witness: text {joy, 0.6} and audio {sadness, 1.0} were fused to
\* {joy, 0.6} and scored 0.0.
C37_Witness ==
    /\ epc = "done"
    /\ text_em = [label |-> "joy", score |-> 600]
    /\ audio_em = [label |-> "sadness", score |-> 1000]
    /\ image_em = None
    /\ fused_emotion = [label |-> "joy", score |-> 600]
    /\ analysis.depression_score = 0

(***************************************************************************)
(* Claims about _enhance_response_with_emotional_context (SpecEnhance).    *)
(***************************************************************************)
Appended(x) == \E k \in 1..Len(enhanced_response) : enhanced_response[k] = x

\* C23: enhancement appends the resources paragraph iff the level is high and
\* the score exceeds 0.7, the encouragement paragraph iff the level is moderate
\* and the score exceeds 0.4, and the addendum of sadness, fear, anger or joy
\* iff that is the label (in any case) and the confidence exceeds 0.7; it
\* appends nothing else, the risk paragraph first.
C23_EnhancementRules ==
    epc = "enhanced" =>
        /\ Appended("resources") <=>
               (analysis.depression_level = "high" /\ analysis.depression_score > 70)
        /\ Appended("encouragement") <=>
               (analysis.depression_level = "moderate" /\ analysis.depression_score > 40)
        /\ \A l \in {"sadness", "fear", "anger", "joy"} :
               Appended(l) <=> (lower(text_em.label) = l /\ text_em.score > 700)
        /\ \A k \in 1..Len(enhanced_response) :
               enhanced_response[k] \in
                   {"resources", "encouragement", "sadness", "fear", "anger", "joy"}
        /\ Len(enhanced_response) <= 2
        /\ Len(enhanced_response) = 2 =>
               enhanced_response[1] \in {"resources", "encouragement"}

\* C23 witness: {sadness, 0.9} with score 0.72 and level high received the
\* resources paragraph and the sadness addendum.
C23_Witness ==
    /\ epc = "enhanced"
    /\ text_em = [label |-> "sadness", score |-> 900]
    /\ analysis.depression_score = 72
    /\ analysis.depression_level = "high"
    /\ enhanced_response = <<"resources", "sadness">>
    /\ DepressionResult(text_em).depression_score = 72
    /\ DepressionResult(text_em).depression_level = "high"

(***************************************************************************)
(* Claims about the ChatService under concurrent callers.                  *)
(***************************************************************************)
Alive == {t \in ThreadIds : is_alive(t)}
OpenHandles == {h \in ThreadIds : handles[h] = "open"}

\* C3: at most one capture thread is alive and at most one capture-device
\* handle is open, in every reachable state.
C3_AtMostOneCapture == Cardinality(Alive) <= 1 /\ Cardinality(OpenHandles) <= 1

\* The turns of a sequence.
TurnsOf(h) == {h[k] : k \in 1..Len(h)}

\* C4: sessions are not shared between users: the history a call hands to
\* response generation holds no turn of another user, and a start_chat resets
\* no turn of another user.
C4_SessionsNotShared ==
    [][\A w \in Workers :
          /\ (requests[w].pc = "sm_generate" /\ requests'[w].pc = "sm_reply") =>
                 \A t \in TurnsOf(requests'[w].formatted_history) : t.user = requests[w].user
          /\ (requests[w].pc = "sc_reset" /\ requests'[w].pc = "sc_welcome") =>
                 \A t \in TurnsOf(conversation_history) : t.user = requests[w].user
      ]_vars

\* The call on w is the latest call made and nothing else is running.
LatestAndQuiet(w) ==
    /\ requests[w].pc = "done"
    /\ requests[w].rid = calls
    /\ \A q \in Workers : Idle(q)

\* C5: once start_chat("text") has returned where OpenCV is available, and
\* until another call is made, a capture task has been launched and has not
\* been told to stop, so that it captures at its next interval.
C5_StartLeavesCaptureRunning ==
    \A w \in Workers :
        (LatestAndQuiet(w) /\ requests[w].op = "start_chat"
            /\ requests[w].chat_type = "text" /\ cv2) =>
                (capture_thread # NoThread /\ ~stop_capture)

\* C6: foreground turns are processed one at a time: in conversation_history a
\* user turn is the last turn (its reply is being produced) or, when what
\* follows it comes from send_message, is followed at once by the assistant turn
\* of the same call.
C6_TurnsProcessedOneAtATime ==
    \A k \in 1..Len(conversation_history) :
        (conversation_history[k].role = "user" /\ k < Len(conversation_history)
            /\ conversation_history[k + 1].content.base # "welcome") =>
            /\ conversation_history[k + 1].role = "assistant"
            /\ conversation_history[k + 1].rid = conversation_history[k].rid

\* The event and the record of call rid with these values are in the sink.
Logged(rid, emotion, depression) ==
    \E u \in Users :
        /\ \E k \in 1..Len(emotional_data[u]) :
              /\ emotional_data[u][k].by = rid
              /\ emotional_data[u][k].source = "chat"
              /\ emotional_data[u][k].emotion = emotion
              /\ emotional_data[u][k].depression_score = depression.depression_score
        /\ \E k \in 1..Len(depression_scores[u]) :
              /\ depression_scores[u][k].by = rid
              /\ depression_scores[u][k].score = depression.depression_score
              /\ depression_scores[u][k].level = depression.depression_level

\* Some event or record of call rid is in the sink.
AnyLogged(rid) ==
    \E u \in Users :
        \/ \E k \in 1..Len(emotional_data[u]) : emotional_data[u][k].by = rid
        \/ \E k \in 1..Len(depression_scores[u]) : depression_scores[u][k].by = rid

\* The call on w is a non-empty turn whose analysis step is over.
Analysed(w) ==
    /\ requests[w].op = "send_message"
    /\ requests[w].pc \in {"sm_generate", "sm_reply", "done"}
    /\ requests[w].depression_analysis # NoAnalysis

\* C7 as claimed: in every non-empty turn the event and the record are in the
\* log before response generation is invoked and when the turn returns.
C7_AlwaysPersistedBeforeGeneration ==
    \A w \in Workers : Analysed(w) => AnyLogged(requests[w].rid)

\* C7 as amended: a non-empty turn whose sink write did not raise (the turn
\* still carries the analysis it computed) has its event and record, with the
\* computed values, in the log before response generation is invoked and when
\* it returns, whatever response generation did; a turn whose write raised
\* carries unknown/0.0 and has recorded nothing.
C7_PersistedUnlessWriteFails ==
    \A w \in Workers :
        Analysed(w) =>
            IF requests[w].depression_analysis.depression_level # "unknown"
            THEN Logged(requests[w].rid, requests[w].emotion_result,
                        requests[w].depression_analysis)
            ELSE ~AnyLogged(requests[w].rid) /\ requests[w].emotion_result = Unknown

\* C7 witness: response generation failed altogether in a turn whose event and
\* record are in the log, and the turn has returned.
C7_Witness ==
    \E w \in Workers :
        /\ Analysed(w)
        /\ requests[w].pc = "done"
        /\ requests[w].reply = "fails"
        /\ requests[w].depression_analysis.depression_level = "high"
        /\ Logged(requests[w].rid, requests[w].emotion_result, requests[w].depression_analysis)

\* C8: send_message always returns an assistant turn with a content, and the
\* trouble-connecting text when even the fallback responder failed.
C8_SendMessageNeverPropagates ==
    \A w \in Workers :
        (requests[w].op = "send_message" /\ requests[w].pc = "done") =>
            /\ requests[w].ret.role = "assistant"
            /\ requests[w].ret.content.base \in {"clarify", "llm", "fallback", "trouble"}
            /\ (requests[w].reply = "fails" => requests[w].ret.content = Plain("trouble"))

\* C8 witness: a turn in which the sink write raised and the fallback
\* responder failed has returned.
C8_Witness ==
    \E w \in Workers :
        /\ requests[w].op = "send_message"
        /\ requests[w].pc = "done"
        /\ requests[w].depression_analysis = FailedAnalysis
        /\ requests[w].reply = "fails"
        /\ requests[w].ret.content = Plain("trouble")

\* A message that is None, empty or made of whitespace only.
EmptyOrWhitespace(m) == m = NoneMsg \/ \A k \in 1..Len(m) : m[k] \in Whitespace

\* C9: the step of send_message on a None, empty or whitespace-only message
\* returns the fixed clarification reply, has run no classifier, and leaves the
\* conversation history and the log as they were.
C9_BlankMessageRejected ==
    [][\A w \in Workers :
          (requests[w].pc = "sm_check" /\ EmptyOrWhitespace(requests[w].message)
              /\ requests'[w].pc # "sm_check") =>
                  /\ requests'[w].pc = "done"
                  /\ requests'[w].ret = Return("assistant", Plain("clarify"), None, NoAnalysis)
                  /\ requests'[w].emotion_result = None
                  /\ requests'[w].depression_analysis = NoAnalysis
                  /\ conversation_history' = conversation_history
                  /\ emotional_data' = emotional_data
                  /\ depression_scores' = depression_scores
      ]_vars

\* C9 witness: a whitespace-only message was answered in a started session.
C9_Witness ==
    \E w \in Workers :
        /\ requests[w].op = "send_message"
        /\ requests[w].pc = "done"
        /\ requests[w].message = <<" ">>
        /\ requests[w].ret.content = Plain("clarify")
        /\ conversation_history # <<>>

OneCallAtATime == \A q \in Workers : q > 1 => requests[q].pc = "new"

\* C11: stop_background_capture raises no error, whatever was called before it
\* (a start_chat, another stop_background_capture, or nothing): when calls are
\* made one after the other, every stop_background_capture that has finished
\* returned normally.
C11_StopRaisesNoError ==
    \A w \in Workers :
        (OneCallAtATime /\ requests[w].op = "stop_background_capture"
            /\ requests[w].pc = "done") =>
                requests[w].ret.role = "returned"

\* C12: a non-empty message submitted before any start_chat is not processed:
\* the first call ever made on the service leaves no user turn in the history
\* and no chat event in the log, and gets no generated reply.
C12_SubmitBeforeStartIgnored ==
    /\ \A t \in TurnsOf(conversation_history) : t.rid = 1 => t.role # "user"
    /\ \A u \in Users : \A e \in TurnsOf(emotional_data[u]) :
           e.by = 1 => e.source # "chat"
    /\ \A w \in Workers :
           (requests[w].op = "send_message" /\ requests[w].rid = 1) =>
               requests[w].reply \notin {"llm", "fallback"}

\* C13: no capture-device handle is leaked: once a capture thread that was
\* started has exited, the handle it opened is not open and self.camera does
\* not refer to it.
C13_NoHandleLeaked ==
    \A t \in ThreadIds :
        threads[t] = "dead" => (handles[t] # "open" /\ camera # t)

\* The same for calls made one after the other: this holds, for every
\* interleaving of the capture threads with those calls.
NoHandleLeakedOneCallAtATime ==
    \A t \in ThreadIds :
        (OneCallAtATime /\ threads[t] = "dead") => (handles[t] # "open" /\ camera # t)

\* C14: once a stop_background_capture has set the stop flag, a capture loop
\* that was started by an earlier call begins no new capture iteration.  (A
\* thread is named after the call that started it, and calls are numbered in
\* the order in which they begin.)
C14_NoIterationAfterStop ==
    [][\A t \in ThreadIds : \A w \in Workers :
          (requests[w].op = "stop_background_capture" /\ requests[w].rid > t
              /\ threads[t] = "loop") => threads'[t] # "read"
      ]_vars

\* The logs only grow: every entry stays where it is, unchanged.
IsPrefix(s, t) == Len(s) <= Len(t) /\ SubSeq(t, 1, Len(s)) = s

\* C15: the logs are append-only under any interleaving of foreground turns
\* and background captures: every step leaves each user's emotional_data and
\* depression_scores a prefix of what they are after the step, so that no entry
\* is changed, removed or reordered.
C15_LogsAppendOnly ==
    [][\A u \in Users :
          /\ IsPrefix(emotional_data[u], emotional_data'[u])
          /\ IsPrefix(depression_scores[u], depression_scores'[u])
      ]_vars

\* C15 witness: one user's log holds a background capture followed by the
\* events of two chat turns, in the order in which the turns wrote them.
C15_Witness ==
    \E u \in Users :
        /\ Len(emotional_data[u]) = 3
        /\ emotional_data[u][1].source = "background_image"
        /\ emotional_data[u][2].source = "chat"
        /\ emotional_data[u][3].source = "chat"
        /\ emotional_data[u][2].by # emotional_data[u][3].by
        /\ Len(depression_scores[u]) = 3

\* C24: when the backend is missing or its call raised, so that the reply came
\* from the fallback responder, the step that ends the turn appends the
\* assistant turn with that reply to the history and returns it with the
\* emotion and depression results of the turn, never the trouble-connecting
\* reply and never an error.
C24_BackendFailureFallsBack ==
    [][\A w \in Workers :
          (requests[w].pc = "sm_reply" /\ requests[w].reply = "fallback"
              /\ requests'[w].pc = "done") =>
                /\ conversation_history' =
                       Append(conversation_history,
                              Turn("assistant", Plain("fallback"),
                                   requests[w].rid, requests[w].user))
                /\ requests'[w].ret.role = "assistant"
                /\ requests'[w].ret.content.base = "fallback"
                /\ requests'[w].ret.emotion = requests[w].emotion_result
                /\ requests'[w].ret.depression = requests[w].depression_analysis
                /\ requests'[w].ret.depression # NoAnalysis
      ]_vars

\* C24 witness: a turn answered by the fallback responder has returned its
\* reply with the payload {sadness, 0.9}, 0.72, high, and its assistant turn is
\* the last of the history.
C24_Witness ==
    \E w \in Workers :
        /\ requests[w].op = "send_message"
        /\ requests[w].pc = "done"
        /\ requests[w].reply = "fallback"
        /\ requests[w].ret.content.base = "fallback"
        /\ requests[w].ret.emotion = [label |-> "sadness", score |-> 900]
        /\ requests[w].ret.depression.depression_score = 72
        /\ requests[w].ret.depression.depression_level = "high"
        /\ Len(conversation_history) > 0
        /\ conversation_history[Len(conversation_history)] =
               Turn("assistant", Plain("fallback"), requests[w].rid, requests[w].user)

\* C25 as claimed: a non-empty turn that returned a generated reply returned
\* with it the analysis computed for its message, whose level is low, moderate
\* or high, whether or not the sink write raised.
C25_WriteFailureKeepsPayload ==
    \A w \in Workers :
        (requests[w].op = "send_message" /\ requests[w].pc = "done"
            /\ ~IsBlank(requests[w].message) /\ requests[w].reply # "fails") =>
                /\ requests[w].ret.role = "assistant"
                /\ requests[w].ret.content.base \in {"llm", "fallback"}
                /\ requests[w].ret.depression.emotional_state # None
                /\ requests[w].ret.depression.depression_level \in {"low", "moderate", "high"}

\* C26: a run of the text classifier that raised yields unknown/0.0 for that
\* run only: the analysis detect_depression built on it has score 0.0 and level
\* low, and the turn goes on and returns an assistant reply.
C26_ClassifierFailureDegrades ==
    \A w \in Workers :
        (Analysed(w) /\ requests[w].depression_analysis.emotional_state = Unknown) =>
            /\ requests[w].depression_analysis.depression_score = 0
            /\ requests[w].depression_analysis.depression_level = "low"
            /\ requests[w].pc = "done" =>
                  /\ requests[w].ret.role = "assistant"
                  /\ requests[w].ret.content.base \in {"llm", "fallback", "trouble"}

\* C26 witness: the first run of the classifier answered {sadness, 0.9}, the
\* run inside detect_depression raised, and the turn returned the generated
\* reply with score 0.0 and level low.
C26_Witness ==
    \E w \in Workers :
        /\ requests[w].op = "send_message"
        /\ requests[w].pc = "done"
        /\ requests[w].emotion_result = [label |-> "sadness", score |-> 900]
        /\ requests[w].depression_analysis.emotional_state = Unknown
        /\ requests[w].ret.content.base = "llm"
        /\ requests[w].ret.depression.depression_score = 0
        /\ requests[w].ret.depression.depression_level = "low"

\* The turns call rid appended to the history.
TurnsBy(rid) == {k \in 1..Len(conversation_history) : conversation_history[k].rid = rid}

\* C27: when calls are made one after the other on a started session, the
\* history alternates assistant, user, assistant, ...; between calls it holds
\* an odd number of turns (1 + 2n); and a non-empty turn that has returned,
\* however its analysis and its generation went, appended exactly its user
\* turn and then exactly one assistant turn.
C27_TurnsAlternate ==
    OneCallAtATime =>
        /\ \A k \in 1..Len(conversation_history) :
               conversation_history[k].role = (IF k % 2 = 1 THEN "assistant" ELSE "user")
        /\ Idle(1) => Len(conversation_history) % 2 = 1
        /\ (requests[1].op = "send_message" /\ requests[1].pc = "done"
                /\ ~IsBlank(requests[1].message)) =>
              LET n == Len(conversation_history)
              IN  /\ TurnsBy(requests[1].rid) = {n - 1, n}
                  /\ conversation_history[n - 1].role = "user"
                  /\ conversation_history[n - 1].content.text = requests[1].message
                  /\ conversation_history[n].role = "assistant"
                  /\ conversation_history[n].content.base = requests[1].ret.content.base

\* C27 witness: after the welcome and four answered turns the history holds
\* nine turns; in the last turn the sink write raised and generation failed.
C27_Witness ==
    /\ OneCallAtATime
    /\ requests[1].op = "send_message"
    /\ requests[1].pc = "done"
    /\ requests[1].depression_analysis = FailedAnalysis
    /\ requests[1].reply = "fails"
    /\ Len(conversation_history) = 9
    /\ conversation_history[8].role = "user"
    /\ conversation_history[9] =
           Turn("assistant", Plain("trouble"), requests[1].rid, requests[1].user)

\* C28: when calls are made one after the other, once start_chat has returned,
\* in either mode and whatever the history held before, the history is exactly
\* one assistant turn whose content is a welcome message, and that turn is the
\* value returned.
C28_StartResetsToWelcome ==
    \A w \in Workers :
        (OneCallAtATime /\ LatestAndQuiet(w) /\ requests[w].op = "start_chat") =>
            /\ Len(conversation_history) = 1
            /\ conversation_history[1].role = "assistant"
            /\ conversation_history[1].content.base \in welcome_messages
            /\ conversation_history[1].content.addenda = <<>>
            /\ requests[w].ret.role = conversation_history[1].role
            /\ requests[w].ret.content = conversation_history[1].content

\* C28 witness: a start_chat("audio") made after an answered turn of a
\* session of seven turns has returned.
C28_Witness ==
    /\ OneCallAtATime
    /\ LatestAndQuiet(1)
    /\ requests[1].op = "start_chat"
    /\ requests[1].chat_type = "audio"
    /\ calls = 2
    /\ \E u \in Users : Len(emotional_data[u]) = 1
    /\ Len(conversation_history) = 1
    /\ conversation_history[1].rid = 2

\* C29: when calls are made one after the other, the list passed to response
\* generation is the system message followed by the last min(5, n) turns of
\* the n turns of the history, in order, the last of them being the message
\* of the turn; no older turn is in it.
C29_LastFivePassed ==
    \A w \in Workers :
        (OneCallAtATime /\ requests[w].pc = "sm_reply") =>
            LET fh == requests[w].formatted_history
                h  == conversation_history
                n  == Len(fh) - 1
            IN  /\ n >= 1
                /\ n <= 5
                /\ n = (IF Len(h) <= 5 THEN Len(h) ELSE 5)
                /\ fh[1].role = "system"
                /\ \A k \in 1..n : fh[k + 1] = h[Len(h) - n + k]
                /\ fh[n + 1].role = "user"
                /\ fh[n + 1].rid = requests[w].rid
                /\ fh[n + 1].content.text = requests[w].message

\* C29 witness: the history holds eight turns and the list passed holds the
\* system message and the turns four to eight.
C29_Witness ==
    \E w \in Workers :
        /\ OneCallAtATime
        /\ requests[w].pc = "sm_reply"
        /\ Len(conversation_history) = 8
        /\ Len(requests[w].formatted_history) = 6
        /\ requests[w].formatted_history[2] = conversation_history[4]
        /\ requests[w].formatted_history[6] = conversation_history[8]

\* C30: a read that yields no frame records no event and does not end the
\* loop: the thread waits and goes back to the loop test, which sends it to
\* the next read unless the stop flag is set.
C30_NoFrameIsRetried ==
    [][\A t \in ThreadIds :
          /\ (threads[t] = "read" /\ threads'[t] = "retry") =>
                 (emotional_data' = emotional_data /\ depression_scores' = depression_scores)
          /\ (threads[t] = "retry" /\ threads'[t] # "retry") =>
                 /\ threads'[t] = "loop"
                 /\ handles' = handles
                 /\ emotional_data' = emotional_data
                 /\ depression_scores' = depression_scores
          /\ (threads[t] = "loop" /\ threads'[t] # "loop") =>
                 threads'[t] = (IF stop_capture THEN "finally" ELSE "read")
      ]_vars

\* C30 witness: the capture thread's read of its open device yielded no frame
\* and the stop flag is clear.
C30_Witness ==
    \E t \in ThreadIds :
        /\ threads[t] = "retry"
        /\ camera = t
        /\ handles[t] = "open"
        /\ ~stop_capture

\* C38: every turn of the history, and so every turn of a list passed to
\* response generation, is without enhancement addenda; a turn that returned
\* a generated reply returned it with the addenda of its analysis, and the
\* assistant turn it stored is the same reply without them.
C38_HistoryHoldsPlainReply ==
    /\ \A k \in 1..Len(conversation_history) :
           conversation_history[k].content.addenda = <<>>
    /\ \A w \in Workers :
           /\ \A k \in 1..Len(requests[w].formatted_history) :
                  requests[w].formatted_history[k].content.addenda = <<>>
           /\ (requests[w].op = "send_message" /\ requests[w].pc = "done"
                   /\ ~IsBlank(requests[w].message) /\ requests[w].reply # "fails") =>
                 /\ requests[w].ret.content.base = requests[w].reply
                 /\ requests[w].ret.content.addenda =
                        Enhance(requests[w].emotion_result, requests[w].depression_analysis)
                 /\ \A k \in TurnsBy(requests[w].rid) :
                        conversation_history[k].role = "assistant" =>
                            conversation_history[k].content = Plain(requests[w].ret.content.base)

\* C38 witness: a turn returned its reply with the resources and sadness
\* addenda, and the list passed to generation in the next turn holds that
\* turn's assistant turn without them.
C38_Witness ==
    \E w, v \in Workers :
        /\ requests[w].op = "send_message"
        /\ requests[w].pc = "done"
        /\ requests[w].ret.content.addenda = <<"resources", "sadness">>
        /\ requests[v].pc = "sm_reply"
        /\ requests[v].rid > requests[w].rid
        /\ \E k \in 1..Len(requests[v].formatted_history) :
              requests[v].formatted_history[k] =
                  Turn("assistant", Plain(requests[w].reply), requests[w].rid, requests[w].user)

(***************************************************************************)
(* Claims about _get_fallback_response (SpecFallback).                     *)
(***************************************************************************)
Mentions(words) == AnyIn(words, message_lower(user_message))

EmotionWords(pool) ==
    CASE pool = "sadness" -> SadWords
      [] pool = "anger"   -> AngryWords
      [] pool = "fear"    -> ScaredWords
      [] pool = "joy"     -> HappyWords

\* The rules in the order of the claim: greeting keyword, gratitude keyword,
\* identity question, help keyword, feeling statement with an emotion keyword,
\* detected emotion label, general.
RuleMatches(n) ==
    CASE n = 1 -> Mentions(GreetingWords)
      [] n = 2 -> Mentions(GratitudeWords)
      [] n = 3 -> Mentions(<<WhoAreYou, WhatAreYou>>)
      [] n = 4 -> Mentions(HelpWords)
      [] n = 5 -> Mentions(FeelingWords)
                    /\ \E pool \in {"sadness", "anger", "fear", "joy"} : Mentions(EmotionWords(pool))
      [] n = 6 -> lower(text_em.label) \in {"sadness", "anger", "fear", "joy"}
      [] OTHER -> TRUE

RulePools(n) ==
    CASE n = 1 -> {"greetings"}
      [] n = 2 -> {"gratitude_responses"}
      [] n = 3 -> {"bot_descriptions"}
      [] n = 4 -> {"help_responses"}
      [] n = 5 -> {pool \in {"sadness", "anger", "fear", "joy"} : Mentions(EmotionWords(pool))}
      [] n = 6 -> {lower(text_em.label)}
      [] OTHER -> {"general_responses"}

FirstRule == CHOOSE n \in 1..7 : RuleMatches(n) /\ \A m \in 1..(n - 1) : ~RuleMatches(m)

\* C39: for every message and every emotion label the responder returns a
\* reply from one pool, the pool of the first rule that matches in the order
\* greeting, gratitude, identity, help, feeling statement with an emotion
\* keyword, detected label, general; so a feeling statement without an emotion
\* keyword is answered by the detected label and a keyword rule wins over the
\* detected label.
C39_FallbackFirstMatchingRule ==
    epc = "replied" =>
        /\ fallback_response \in Pools
        /\ fallback_response \in RulePools(FirstRule)
        /\ (Mentions(FeelingWords) /\ FirstRule > 5) =>
               fallback_response =
                   (IF lower(text_em.label) \in {"sadness", "anger", "fear", "joy"}
                    THEN lower(text_em.label) ELSE "general_responses")
        /\ FirstRule < 5 => fallback_response \notin {"sadness", "anger", "fear", "joy"}

\* C39 witness: "i feel odd" with the label Sadness was answered from the
\* sadness pool.
C39_Witness ==
    /\ epc = "replied"
    /\ user_message = <<"i", " ", "f", "e", "e", "l", " ", "o", "d", "d">>
    /\ text_em.label = "Sadness"
    /\ FirstRule = 6
    /\ fallback_response = "sadness"

(***************************************************************************)
(* Claims about the report and the dashboard (SpecReport).                 *)
(***************************************************************************)
\* The tier of a mean by the thresholds of the depression level: below 0.3
\* low, from 0.3 and below 0.6 moderate, from 0.6 high.
LevelOfMean(mean) ==
    IF ~AtLeast(mean, Mean(30, 1)) THEN "low"
    ELSE IF ~AtLeast(mean, Mean(60, 1)) THEN "moderate"
    ELSE "high"

TierPair(tier) ==
    CASE tier = "high"     -> <<"Seek Professional Support", "Establish Daily Routine">>
      [] tier = "moderate" -> <<"Physical Activity", "Social Connection">>
      [] OTHER             -> <<"Maintain Healthy Habits", "Preventive Self-Care">>

Badge(tier) == CASE tier = "high" -> "High" [] tier = "moderate" -> "Moderate" [] OTHER -> "Low"

\* The last n entries of a log.
LastOf(q, n) == IF Len(q) <= n THEN q ELSE SubSeq(q, Len(q) - n + 1, Len(q))

\* The mean score of the records the badge is computed from.
BadgeMean ==
    LET last == LastOf(depression_scores["A"], BadgeWindow)
    IN  IF last = <<>> THEN Mean(0, 1)
        ELSE Mean(SumSeq([k \in 1..Len(last) |-> last[k].score]), Len(last))

\* C32 as claimed: the summary of the report, its pair of recommendations and
\* the badge of the dashboard are those of the level of the mean score: low
\* below 0.3, moderate from 0.3, high from 0.6.
C32_TiersFollowLevelThresholds ==
    /\ report # NoReport =>
          /\ report.summary = LevelOfMean(report.depression_score)
          /\ report.recommendations =
                 <<"Practice Mindfulness">> \o TierPair(LevelOfMean(report.depression_score))
    /\ depression_risk # "None" => depression_risk = Badge(LevelOfMean(BadgeMean))

\* C33: the report over an empty log has the score 0, the summary of the low
\* tier, no emotion entry, the not-enough-data analysis and the three
\* recommendations of the low tier; no mean is a quotient by zero.
C33_EmptyLogReport ==
    (report # NoReport /\ emotional_data["A"] = <<>>) =>
        /\ report.depression_score = Mean(0, 1)
        /\ report.summary = "low"
        /\ report.emotions = <<>>
        /\ report.emotion_analysis.template = "not_enough_data"
        /\ report.recommendations =
               <<"Practice Mindfulness", "Maintain Healthy Habits", "Preventive Self-Care">>

\* C33 witness: the report and the dashboard of a user without events.
C33_Witness ==
    /\ emotional_data["A"] = <<>>
    /\ report # NoReport
    /\ report.recommendations[3] = "Preventive Self-Care"
    /\ depression_risk = "Low"

\* The most recent 20 events of the log.
Window == LastOf(emotional_data["A"], ReportWindow)

\* The events of the window with this case-folded label.
WithLabel(l) == {k \in 1..Len(Window) : lower(Window[k].emotion.label) = l}

RECURSIVE SumOver(_, _)
SumOver(f, S) ==
    IF S = {} THEN 0 ELSE LET x == CHOOSE y \in S : TRUE IN f[x] + SumOver(f, S \ {x})

\* C34: the breakdown of the report has one entry per case-folded label of the
\* most recent 20 events, with the number of those events and the mean of
\* their confidences; it is in descending order of that mean, its counts add
\* up to the number of events, and its first entry selects the sentence: joy,
\* or sadness/fear/anger, or other.
C34_EmotionBreakdown ==
    report # NoReport =>
        LET es == report.emotions
        IN  /\ \A j, k \in 1..Len(es) : lower(es[j].label) = lower(es[k].label) => j = k
            /\ {lower(es[k].label) : k \in 1..Len(es)} =
                   {lower(Window[k].emotion.label) : k \in 1..Len(Window)}
            /\ \A k \in 1..Len(es) :
                   /\ es[k].count = Cardinality(WithLabel(lower(es[k].label)))
                   /\ es[k].score =
                          Mean(SumOver([n \in 1..Len(Window) |-> Window[n].emotion.score],
                                       WithLabel(lower(es[k].label))),
                               es[k].count)
            /\ \A k \in 1..(Len(es) - 1) : AtLeast(es[k].score, es[k + 1].score)
            /\ SumSeq([k \in 1..Len(es) |-> es[k].count]) = Len(Window)
            /\ report.emotion_analysis.template =
                   (IF es = <<>> THEN "not_enough_data"
                    ELSE IF lower(es[1].label) = "joy" THEN "joy"
                    ELSE IF lower(es[1].label) \in {"sadness", "fear", "anger"} THEN "negative"
                    ELSE "mix")

\* C34 witness: of 22 events the oldest two are left out; the two spellings of
\* sadness are one entry with count 2 and mean 0.75, after fear at 1.0 and
\* before neutral, and the sentence is that of sadness/fear/anger.
C34_Witness ==
    /\ report # NoReport
    /\ Len(emotional_data["A"]) = 22
    /\ emotional_data["A"][1].emotion.label = "joy"
    /\ Len(report.emotions) = 3
    /\ report.emotions[1].label = "Fear"
    /\ report.emotions[2] = [label |-> "Sadness", score |-> Mean(1500, 2), count |-> 2]
    /\ report.emotions[3].count = 17
    /\ report.emotion_analysis.template = "negative"
\* The events and the records of one user pair up: as many of each, and the
\* k-th record is of the same write as the k-th event.
PairedUp(u) ==
    /\ Len(emotional_data[u]) = Len(depression_scores[u])
    /\ \A k \in 1..Len(emotional_data[u]) :
          /\ depression_scores[u][k].score = emotional_data[u][k].depression_score
          /\ depression_scores[u][k].by = emotional_data[u][k].by
          /\ depression_scores[u][k].source = emotional_data[u][k].source

\* How many chat events the call rid has in the sink, over all users.
ChatEventsOf(rid) ==
    Cardinality({<<u, k>> \in Users \X (1..8) :
                    /\ k <= Len(emotional_data[u])
                    /\ emotional_data[u][k].by = rid
                    /\ emotional_data[u][k].source = "chat"})

\* A step that writes to the sink appends one event and one record to the
\* lists of one user and leaves the other users' lists alone.
OneEventOneRecord ==
    \A u \in Users :
        (emotional_data'[u] # emotional_data[u] \/ depression_scores'[u] # depression_scores[u]) =>
            /\ Len(emotional_data'[u]) = Len(emotional_data[u]) + 1
            /\ Len(depression_scores'[u]) = Len(depression_scores[u]) + 1
            /\ IsPrefix(emotional_data[u], emotional_data'[u])
            /\ IsPrefix(depression_scores[u], depression_scores'[u])
            /\ \A v \in Users \ {u} :
                  /\ emotional_data'[v] = emotional_data[v]
                  /\ depression_scores'[v] = depression_scores[v]

\* C35: every analysed input (chat turn, text analysis, uploaded image, chat
\* image, background capture) appends one event and one record in the same
\* write, with the same depression score: in every reachable state each user
\* has as many events as records and they pair up, a chat turn whose analysis
\* is over has one event when its write went through and none when it
\* raised, and every step that touches the sink appends exactly one of each.
C35_OneEventOneRecordPerWrite ==
    /\ [](\A u \in Users : PairedUp(u))
    /\ [](\A w \in Workers :
            Analysed(w) =>
                /\ ChatEventsOf(requests[w].rid) =
                       (IF requests[w].depression_analysis.depression_level = "unknown"
                        THEN 0 ELSE 1)
                /\ requests[w].depression_analysis.depression_level = "unknown"
                       => ~AnyLogged(requests[w].rid))
    /\ [][OneEventOneRecord]_vars

\* C35 witness: a user's log holds a background capture and the entry of an
\* analysis route with a positive score, paired with their records, while a
\* chat turn whose write raised has returned and left nothing.
C35_Witness ==
    /\ \E u \in Users :
          /\ Len(emotional_data[u]) = 2
          /\ Len(depression_scores[u]) = 2
          /\ \E k \in 1..2 : emotional_data[u][k].source = "background_image"
          /\ \E k \in 1..2 :
                /\ emotional_data[u][k].source \in RouteSources
                /\ depression_scores[u][k].score > 0
    /\ \E w \in Workers :
          /\ Analysed(w)
          /\ requests[w].pc = "done"
          /\ requests[w].depression_analysis = FailedAnalysis
          /\ ~AnyLogged(requests[w].rid)

\* The capture thread t was launched by the start_chat call numbered t; while
\* that call is still the latest of its caller thread, its user is on record.
Launched(w, t) ==
    /\ requests[w].op = "start_chat"
    /\ requests[w].rid = t
    /\ threads[t] # "unborn"

\* C36 as claimed: every background_image event and record written by a
\* capture thread is stored under the user whose start_chat launched the
\* thread, whatever start requests of other users went through
\* get_chat_service in between.
C36_CaptureStoredUnderLauncher ==
    \A u \in Users, w \in Workers :
        /\ \A k \in 1..Len(emotional_data[u]) :
              (emotional_data[u][k].source = "background_image"
                  /\ Launched(w, emotional_data[u][k].by))
                  => requests[w].user = u
        /\ \A k \in 1..Len(depression_scores[u]) :
              (depression_scores[u][k].source = "background_image"
                  /\ Launched(w, depression_scores[u][k].by))
                  => requests[w].user = u

\* The capture of the session has failed: the start of its thread raised, or
\* a thread ended although nobody had asked it to stop.
StartRaised == capture_thread # NoThread /\ threads[capture_thread] = "unborn"
LoopEndedOnError == ~stop_capture /\ \E t \in ThreadIds : threads[t] = "dead"
CaptureFailed == StartRaised \/ LoopEndedOnError

\* What send_message returns in a session without background capture, from
\* the message, the analysis and the outcome of response generation.
PlainSessionReturn(w) ==
    IF IsBlank(requests[w].message)
    THEN Return("assistant", Plain("clarify"), None, NoAnalysis)
    ELSE IF requests[w].reply = "fails"
    THEN Return("assistant", Plain("trouble"), None, NoAnalysis)
    ELSE Return("assistant",
                Content(requests[w].reply,
                        Enhance(requests[w].emotion_result, requests[w].depression_analysis),
                        <<>>),
                requests[w].emotion_result, requests[w].depression_analysis)

\* The history ends with the user turn and the assistant turn of the call on w.
EndsWithTurnsOf(w) ==
    LET n == Len(conversation_history)
    IN  /\ n >= 2
        /\ conversation_history[n - 1] =
               Turn("user", Content("message", <<>>, requests[w].message),
                    requests[w].rid, requests[w].user)
        /\ conversation_history[n] =
               Turn("assistant", Plain(requests[w].ret.content.base),
                    requests[w].rid, requests[w].user)

\* C31: a failure of the background capture fails neither the session nor a
\* turn: a start_chat that has returned, returned the welcome turn, and right
\* after it the history is that turn alone, also when the start of the
\* capture thread raised; once the capture has failed, every send_message
\* that returns, returns what it returns without background capture, has
\* stored its event and record unless its own write raised, and has appended
\* its user turn and its assistant turn.
C31_CaptureFailureHarmless ==
    \A w \in Workers :
        /\ (requests[w].op = "start_chat" /\ requests[w].pc = "done") =>
              /\ requests[w].ret.content.base \in welcome_messages
              /\ requests[w].ret =
                     Return("assistant", Plain(requests[w].ret.content.base), None, NoAnalysis)
              /\ LatestAndQuiet(w) =>
                    conversation_history =
                        <<Turn("assistant", requests[w].ret.content,
                               requests[w].rid, requests[w].user)>>
        /\ (CaptureFailed /\ requests[w].op = "send_message" /\ requests[w].pc = "done") =>
              /\ requests[w].ret = PlainSessionReturn(w)
              /\ ~IsBlank(requests[w].message) =>
                    /\ IF requests[w].depression_analysis.depression_level # "unknown"
                       THEN Logged(requests[w].rid, requests[w].emotion_result,
                                   requests[w].depression_analysis)
                       ELSE ~AnyLogged(requests[w].rid)
                    /\ LatestAndQuiet(w) => EndsWithTurnsOf(w)

\* C31 witness: the thread of the first start_chat ended on an error, the
\* start of the thread of the second start_chat raised and that call returned
\* the welcome all the same, and the turn sent after it returned the generated
\* reply with its analysis.
C31_Witness ==
    /\ StartRaised
    /\ LoopEndedOnError
    /\ \E w \in Workers :
          /\ requests[w].op = "send_message"
          /\ requests[w].pc = "done"
          /\ requests[w].rid > capture_thread
          /\ requests[w].ret.content.base = "llm"
          /\ requests[w].ret.depression.depression_level = "high"
          /\ EndsWithTurnsOf(w)

====
